---- MODULE Spec2Model ----
(***************************************************************************)
(* Request store of satpass (src/src/satpass/requests_db.py) and the key   *)
(* derivation it rests on (src/src/satpass/slug.py).                       *)
(*                                                                         *)
(* Text that the program compares, orders or hashes (slugs, keys, bundle   *)
(* names) is a sequence of character codes, so that concatenation,         *)
(* lexicographic ORDER BY and the FNV-1a fingerprint are computed as the   *)
(* code computes them.  Attribution text (name, requested_by,              *)
(* requested_at) is only tested for NULL / emptiness and copied, and is a  *)
(* TLA+ string.  Coordinates are fixed-point numbers with one digit more   *)
(* than the rounding precision.  Timestamps are clock readings.            *)
(***************************************************************************)
EXTENDS Integers, Sequences, FiniteSets, TLC

\* ----------------------------------------------------------------- bounds

\* number of operations (upsert, canonicalize, dedupe) in one behaviour
MaxOps == 3

\* passes of canonicalize_requests repeated with one availability and cap
MaxPasses == 4

\* seed_requests calls in one behaviour
MaxSeeds == 2

\* rounding precision of the configuration (request_defaults.slug_precision_decimals)
Precision == 1

\* ------------------------------------------------------------------- text

\* SQL NULL / Python None of a text column (no character has code -1)
NullText == <<-1>>

\* SQL NULL / Python None of an attribution column
None == "None"

Min(a, b) == IF a <= b THEN a ELSE b

Max(a, b) == IF a >= b THEN a ELSE b

RECURSIVE Pow10(_)
Pow10(n) == IF n = 0 THEN 1 ELSE 10 * Pow10(n - 1)

\* str(n) for n >= 0
RECURSIVE DecStr(_)
DecStr(n) == IF n < 10 THEN <<48 + n>> ELSE DecStr(n \div 10) \o <<48 + (n % 10)>>

\* the digits of n, zero-padded on the left to width w
RECURSIVE PadDec(_, _)
PadDec(n, w) == IF w = 0 THEN <<>> ELSE PadDec(n \div 10, w - 1) \o <<48 + (n % 10)>>

\* binary (memcmp) order of two texts: SQLite's ORDER BY, Python's str <
StrLess(a, b) ==
    \E i \in 1..(Min(Len(a), Len(b)) + 1) :
        /\ \A j \in 1..(i - 1) : a[j] = b[j]
        /\ \/ i > Len(a) /\ i <= Len(b)
           \/ i <= Len(a) /\ i <= Len(b) /\ a[i] < b[i]

\* the ticks of the clock in one second (the clock of datetime has 10^6)
TicksPerSecond == 100

\* a timestamp n of the model is the instant n ticks after half a second
\* before a whole second: its second and the ticks into it
StampSecond(n) == (n + TicksPerSecond \div 2) \div TicksPerSecond

StampFraction(n) == (n + TicksPerSecond \div 2) % TicksPerSecond

\* _utc_now(): datetime.now(timezone.utc).isoformat().replace("+00:00", "Z").
\* isoformat writes "SS.ffffff", and "SS" alone when the fraction is zero; the
\* text of the model is the seconds and the fraction in two digits each (the
\* date and the hour are a common prefix and left out)
StampText(n) ==
    PadDec(StampSecond(n), 2)
        \o (IF StampFraction(n) = 0 THEN <<>> ELSE <<46>> \o PadDec(StampFraction(n), 2))
        \o <<90>>

\* Python's min(a, b) and max(a, b) of two timestamp texts: b only when it is
\* strictly below, or strictly above, a
MinStamp(a, b) == IF StrLess(StampText(b), StampText(a)) THEN b ELSE a

MaxStamp(a, b) == IF StrLess(StampText(a), StampText(b)) THEN b ELSE a

\* "--"
Sep == <<45, 45>>

\* "--sel-"
SelSep == <<45, 45, 115, 101, 108, 45>>

\* the text contains "--"
HasSep(s) == \E i \in 1..(Len(s) - 1) : s[i] = 45 /\ s[i + 1] = 45

\* slug.split("--")[0]
SplitFirst(s) ==
    LET i == CHOOSE k \in 1..(Len(s) - 1) :
                 /\ s[k] = 45 /\ s[k + 1] = 45
                 /\ \A j \in 1..(k - 1) : ~(s[j] = 45 /\ s[j + 1] = 45)
    IN  SubSeq(s, 1, i - 1)

\* ---------------------------------------------------------------- slug.py

\* sorted({int(i) for i in ids}); None and the empty list give []
RECURSIVE SortedSeq(_)
SortedSeq(S) ==
    IF S = {} THEN <<>>
    ELSE LET m == CHOOSE x \in S : \A y \in S : x <= y
         IN  <<m>> \o SortedSeq(S \ {m})

\* A variant of the normalization that keeps the ids as listed
NormalizeAsListed(ids) == ids

normalize_norad_ids(ids) == SortedSeq({ids[i] : i \in DOMAIN ids})

\* ",".join(str(i) for i in ids)
RECURSIVE JoinIds(_)
JoinIds(ids) ==
    IF ids = <<>> THEN <<>>
    ELSE IF Len(ids) = 1 THEN DecStr(ids[1])
    ELSE DecStr(ids[1]) \o <<44>> \o JoinIds(Tail(ids))

\* a ^ b on 8-bit values
RECURSIVE Xor(_, _, _)
Xor(a, b, bits) ==
    IF bits = 0 THEN 0
    ELSE 2 * Xor(a \div 2, b \div 2, bits - 1) + ((a + b) % 2)

\* One FNV-1a round on a 32-bit value kept as <<high 16 bits, low 16 bits>>:
\* hash_val ^= char; hash_val = (hash_val * 16777619) & 0xFFFFFFFF.
\* 16777619 = 256 * 65536 + 403.
FnvStep(h, char) ==
    LET lo == (h[2] \div 256) * 256 + Xor(h[2] % 256, char, 8)
        hi == h[1]
        p  == lo * 403
    IN  << (hi * 403 + lo * 256 + (p \div 65536)) % 65536, p % 65536 >>

RECURSIVE FnvFold(_, _)
FnvFold(h, bytes) ==
    IF bytes = <<>> THEN h ELSE FnvFold(FnvStep(h, Head(bytes)), Tail(bytes))

\* one lowercase hexadecimal digit
HexDigit(n) == IF n < 10 THEN 48 + n ELSE 87 + n

\* f"{v:04x}" of a 16-bit value
Hex4(v) ==
    << HexDigit(v \div 4096), HexDigit((v \div 256) % 16),
       HexDigit((v \div 16) % 16), HexDigit(v % 16) >>

\* A variant of the fingerprint taken over the ids as listed, without the
\* normalization
SelectionHashAsListed(ids) ==
    LET h == FnvFold(<<33052, 40389>>, JoinIds(ids))
    IN  Hex4(h[1]) \o Hex4(h[2])

\* selection_hash: FNV-1a (offset basis 2166136261 = 0x811C9DC5) over the
\* joined decimal ids, as 8 hexadecimal digits
selection_hash(ids) ==
    LET h == FnvFold(<<33052, 40389>>, JoinIds(normalize_norad_ids(ids)))
    IN  Hex4(h[1]) \o Hex4(h[2])

\* Python's round(value, precision) on a value given in units of
\* 10^-(precision+1); the result is in units of 10^-precision.  A decimal tie
\* is decided by the binary value of the float, so the inputs of this model
\* avoid a last digit of 5; the tie is rounded to even here.
RoundCoord(v) ==
    LET a == IF v < 0 THEN -v ELSE v
        q == a \div 10
        r == a % 10
        m == IF r > 5 \/ (r = 5 /\ q % 2 = 1) THEN q + 1 ELSE q
    IN  [neg |-> v < 0, mag |-> m]

\* the text of a rounded coordinate: "m" for a value below zero (-0.0 is not
\* below zero), then the magnitude with "p" for the decimal point
FormatRounded(rounded, precision) ==
    (IF rounded.neg /\ rounded.mag > 0 THEN <<109>> ELSE <<>>)
    \o (IF precision = 0
        THEN DecStr(rounded.mag)
        ELSE DecStr(rounded.mag \div Pow10(precision)) \o <<112>>
                 \o PadDec(rounded.mag % Pow10(precision), precision))

format_coordinate(value, precision) == FormatRounded(RoundCoord(value), precision)

\* compute_location_slug: f"lat{lat_part}_lon{lon_part}"
compute_location_slug(lat, lon, precision) ==
    <<108, 97, 116>> \o format_coordinate(lat, precision)
        \o <<95, 108, 111, 110>> \o format_coordinate(lon, precision)

\* compute_request_feed_slug
compute_request_feed_slug(location_slug, bundle_slug, selected_norad_ids) ==
    IF selected_norad_ids = <<>>
    THEN location_slug \o Sep \o bundle_slug
    ELSE location_slug \o Sep \o bundle_slug \o SelSep \o selection_hash(selected_norad_ids)

\* --------------------------------------------------------- requests_db.py

\* Python truthiness of an optional attribution text
Truthy(s) == s # None /\ s # ""

\* Python's `a or b`
PyOr(a, b) == IF Truthy(a) THEN a ELSE b

\* SQL COALESCE(a, b)
Coalesce(a, b) == IF a # None THEN a ELSE b

\* selection_payload: json.dumps(normalize_norad_ids(ids)).  The JSON text of
\* a list of integers is kept as that list: two payloads are equal texts
\* exactly when they are equal lists.
selection_payload(ids) == normalize_norad_ids(ids)

location_key_for(lat, lon, precision) == compute_location_slug(lat, lon, precision)

\* the ids of `selected` (ascending) that occur in `available`
RECURSIVE FilterIn(_, _)
FilterIn(selected, available) ==
    IF selected = <<>> THEN <<>>
    ELSE IF \E i \in DOMAIN available : available[i] = Head(selected)
         THEN <<Head(selected)>> \o FilterIn(Tail(selected), available)
         ELSE FilterIn(Tail(selected), available)

\* `selected = [i for i in selected if i in available_set]`, when both are non-empty
DropUnavailable(selected, available) ==
    IF selected # <<>> /\ available # <<>> THEN FilterIn(selected, available) ELSE selected

\* A variant of the collapse that never fires: the selection stays as listed
CollapseFullNever(selected, available) ==
    selected

\* `if selected and available and set(selected) == set(available): return []`
CollapseFull(selected, available) ==
    IF selected # <<>> /\ available # <<>>
       /\ {selected[i] : i \in DOMAIN selected} = {available[i] : i \in DOMAIN available}
    THEN <<>>
    ELSE selected

CanonicalOf(selected, available) ==
    CollapseFull(DropUnavailable(selected, available), available)

canonicalize_selection(selected_norad_ids, available_norad_ids) ==
    CanonicalOf(normalize_norad_ids(selected_norad_ids),
                normalize_norad_ids(available_norad_ids))

\* seq[:n]
Take(seq, n) == SubSeq(seq, 1, Min(n, Len(seq)))

DefaultOf(available, max_satellites) ==
    IF available = <<>> THEN <<>> ELSE Take(available, max_satellites)

default_selection(available_norad_ids, max_satellites) ==
    DefaultOf(normalize_norad_ids(available_norad_ids), max_satellites)

request_key_for(location_slug, bundle_slug, selected_norad_ids) ==
    compute_request_feed_slug(location_slug, bundle_slug,
                              normalize_norad_ids(selected_norad_ids))

\* RequestedLocation.resolved_location_slug (config.py)
resolved_location_slug(request, precision) ==
    IF request.slug = NullText \/ request.slug = <<>>
    THEN compute_location_slug(request.lat, request.lon, precision)
    ELSE IF ~HasSep(request.slug) THEN request.slug
    ELSE SplitFirst(request.slug)

\* A row of table `requests` is a record with the columns of the table; the
\* table is the sequence of its rows in rowid order (the order of a scan).
\* read a row as a RequestRecord: location_key NULL reads as ""
RowToRecord(row) ==
    [row EXCEPT !.location_key = IF @ = NullText THEN <<>> ELSE @]

\* DELETE FROM requests WHERE request_key = key
RECURSIVE DeleteWhereKey(_, _)
DeleteWhereKey(rows, key) ==
    IF rows = <<>> THEN <<>>
    ELSE IF Head(rows).request_key = key THEN DeleteWhereKey(Tail(rows), key)
    ELSE <<Head(rows)>> \o DeleteWhereKey(Tail(rows), key)

\* ---- C19

\* A variant of the ORDER BY that puts bundle_slug before location_slug
RowLessBundleFirst(a, b) ==
    \/ StrLess(a.bundle_slug, b.bundle_slug)
    \/ /\ a.bundle_slug = b.bundle_slug
       /\ \/ StrLess(a.location_slug, b.location_slug)
          \/ /\ a.location_slug = b.location_slug
             /\ StrLess(a.request_key, b.request_key)

\* ORDER BY location_slug, bundle_slug, request_key
RowLess(a, b) ==
    \/ StrLess(a.location_slug, b.location_slug)
    \/ /\ a.location_slug = b.location_slug
       /\ \/ StrLess(a.bundle_slug, b.bundle_slug)
          \/ /\ a.bundle_slug = b.bundle_slug
             /\ StrLess(a.request_key, b.request_key)

RECURSIVE OrderRows(_)
OrderRows(S) ==
    IF S = {} THEN <<>>
    ELSE LET m == CHOOSE x \in S : \A y \in S \ {x} : RowLess(x, y)
         IN  <<m>> \o OrderRows(S \ {m})

RecordsOf(ordered) == [i \in DOMAIN ordered |-> RowToRecord(ordered[i])]

list_requests(rows) == RecordsOf(OrderRows({rows[i] : i \in DOMAIN rows}))

\* SELECT ... WHERE request_key = ? ; fetchone()
HasKey(rows, key) == \E i \in DOMAIN rows : rows[i].request_key = key

RowByKey(rows, key) == rows[CHOOSE i \in DOMAIN rows : rows[i].request_key = key]

get_request_by_key(rows, request_key) == RowToRecord(RowByKey(rows, request_key))

\* A variant of the signature lookup that compares the location slug where the
\* statement compares location_key
SignatureMatchesBySlug(row, location_key, bundle_slug, selected_norad_ids) ==
    /\ row.location_slug = location_key
    /\ row.bundle_slug = bundle_slug
    /\ row.selected_norad_ids = selection_payload(selected_norad_ids)

\* A variant of the signature lookup that leaves the selection out of the
\* WHERE clause
SignatureMatchesAnySelection(row, location_key, bundle_slug, selected_norad_ids) ==
    /\ row.location_key # NullText
    /\ row.location_key = location_key
    /\ row.bundle_slug = bundle_slug

\* SELECT ... WHERE location_key = ? AND bundle_slug = ? AND selected_norad_ids = ?
\* (a NULL location_key equals nothing); fetchone() takes the first row of the scan
SignatureMatches(row, location_key, bundle_slug, selected_norad_ids) ==
    /\ row.location_key # NullText
    /\ row.location_key = location_key
    /\ row.bundle_slug = bundle_slug
    /\ row.selected_norad_ids = selection_payload(selected_norad_ids)

HasSignature(rows, location_key, bundle_slug, selected_norad_ids) ==
    \E i \in DOMAIN rows :
        SignatureMatches(rows[i], location_key, bundle_slug, selected_norad_ids)

get_request_by_signature(rows, location_key, bundle_slug, selected_norad_ids) ==
    RowToRecord(rows[CHOOSE k \in DOMAIN rows :
        /\ SignatureMatches(rows[k], location_key, bundle_slug, selected_norad_ids)
        /\ \A j \in 1..(k - 1) :
               ~SignatureMatches(rows[j], location_key, bundle_slug, selected_norad_ids)])

\* the rows ensure_location_keys selects: location_key IS NULL OR location_key = ''
NeedsLocationKey(row) == row.location_key = NullText \/ row.location_key = <<>>

\* UPDATE requests SET location_key = ? WHERE request_key = ?, for each selected row
BackfillRows(rows, precision) ==
    [i \in DOMAIN rows |->
        IF NeedsLocationKey(rows[i])
        THEN [rows[i] EXCEPT !.location_key =
                 location_key_for(rows[i].lat, rows[i].lon, precision)]
        ELSE rows[i]]

\* `if not rows: return 0`, else one commit of the backfilled table
Backfilled(filled, count) ==
    [rows    |-> filled,
     count   |-> count,
     commits |-> IF count = 0 THEN <<>> ELSE <<filled>>]

\* A variant of ensure_location_keys that fills no row
EnsureLocationKeysNever(rows, precision) ==
    Backfilled(rows, 0)

\* ensure_location_keys: the table after the backfill, the number of rows
\* filled and the tables it committed
ensure_location_keys(rows, precision) ==
    Backfilled(BackfillRows(rows, precision),
               Cardinality({i \in DOMAIN rows : NeedsLocationKey(rows[i])}))

\* A variant of the UPDATE that also restamps first_seen
UpsertMergedRowRestamped(row, request, location_key, requested_by, requested_at, now) ==
    [row EXCEPT !.first_seen   = now,
                !.last_seen    = now,
                !.name         = Coalesce(@, request.name),
                !.requested_by = Coalesce(@, requested_by),
                !.requested_at = Coalesce(@, requested_at),
                !.location_key = IF @ = NullText THEN location_key ELSE @]

\* The UPDATE of upsert_request on the matched row (both its branches run the
\* same statement): last_seen = now and COALESCE on the other columns
UpsertMergedRow(row, request, location_key, requested_by, requested_at, now) ==
    [row EXCEPT !.last_seen    = now,
                !.name         = Coalesce(@, request.name),
                !.requested_by = Coalesce(@, requested_by),
                !.requested_at = Coalesce(@, requested_at),
                !.location_key = IF @ = NullText THEN location_key ELSE @]

\* A variant of the UPDATE without its WHERE clause: last_seen of every row
UpsertUpdateEveryRow(rows, key, request, location_key, requested_by, requested_at, now) ==
    [i \in DOMAIN rows |->
        IF rows[i].request_key = key
        THEN UpsertMergedRow(rows[i], request, location_key, requested_by, requested_at, now)
        ELSE [rows[i] EXCEPT !.last_seen = now]]

UpsertUpdate(rows, key, request, location_key, requested_by, requested_at, now) ==
    [i \in DOMAIN rows |->
        IF rows[i].request_key = key
        THEN UpsertMergedRow(rows[i], request, location_key, requested_by, requested_at, now)
        ELSE rows[i]]

\* conn.commit() and return: the table, the branch taken, the tables committed
\* during the call (those of the backfill, then this one) and the record returned
UpsertDone(rows, path, commits, ret) ==
    [rows |-> rows, path |-> path, commits |-> Append(commits, rows), ret |-> ret]

\* `if existing_signature:` the UPDATE, and the RequestRecord built from the
\* record read before it
UpsertOnSignature(rows, commits, request, location_key, existing_signature, requested_by, requested_at, now) ==
    UpsertDone(
        UpsertUpdate(rows, existing_signature.request_key, request, location_key,
                     requested_by, requested_at, now),
        "signature", commits,
        [request_key        |-> existing_signature.request_key,
         location_slug      |-> existing_signature.location_slug,
         location_key       |-> IF existing_signature.location_key # <<>>
                                THEN existing_signature.location_key
                                ELSE location_key,
         bundle_slug        |-> existing_signature.bundle_slug,
         lat                |-> existing_signature.lat,
         lon                |-> existing_signature.lon,
         elevation_m        |-> existing_signature.elevation_m,
         name               |-> PyOr(existing_signature.name, request.name),
         selected_norad_ids |-> existing_signature.selected_norad_ids,
         requested_by       |-> requested_by,
         requested_at       |-> requested_at,
         first_seen         |-> existing_signature.first_seen,
         last_seen          |-> now])

\* the RequestRecord returned by the exact-key and the insert branch
UpsertReturned(request, location_slug, location_key, selected, key, requested_by, requested_at, first_seen, now) ==
    [request_key        |-> key,
     location_slug      |-> location_slug,
     location_key       |-> location_key,
     bundle_slug        |-> request.bundle_slug,
     lat                |-> request.lat,
     lon                |-> request.lon,
     elevation_m        |-> request.elevation_m,
     name               |-> request.name,
     selected_norad_ids |-> selected,
     requested_by       |-> requested_by,
     requested_at       |-> requested_at,
     first_seen         |-> first_seen,
     last_seen          |-> now]

\* `if existing:` the UPDATE of the row that holds the candidate key
UpsertOnKey(rows, commits, request, location_slug, location_key, selected, key, first_seen, requested_by, requested_at, now) ==
    UpsertDone(
        UpsertUpdate(rows, key, request, location_key, requested_by, requested_at, now),
        "key", commits,
        UpsertReturned(request, location_slug, location_key, selected, key,
                       requested_by, requested_at, first_seen, now))

\* A variant of the INSERT that leaves the attribution columns NULL
UpsertInsertUnattributed(rows, commits, request, location_slug, location_key, selected, key, now) ==
    UpsertDone(
        Append(rows,
               [request_key        |-> key,
                location_slug      |-> location_slug,
                location_key       |-> location_key,
                bundle_slug        |-> request.bundle_slug,
                lat                |-> request.lat,
                lon                |-> request.lon,
                elevation_m        |-> request.elevation_m,
                name               |-> request.name,
                selected_norad_ids |-> selection_payload(selected),
                requested_by       |-> None,
                requested_at       |-> None,
                first_seen         |-> now,
                last_seen          |-> now]),
        "insert", commits,
        UpsertReturned(request, location_slug, location_key, selected, key,
                       request.requested_by, request.requested_at, now, now))

\* A variant of the insert branch that returns the record and leaves the
\* INSERT out
UpsertInsertUnwritten(rows, commits, request, location_slug, location_key, selected, key, now) ==
    UpsertDone(
        rows, "insert", commits,
        UpsertReturned(request, location_slug, location_key, selected, key,
                       request.requested_by, request.requested_at, now, now))

\* `else:` the INSERT; the new row is the last of the scan
UpsertInsert(rows, commits, request, location_slug, location_key, selected, key, now) ==
    UpsertDone(
        Append(rows,
               [request_key        |-> key,
                location_slug      |-> location_slug,
                location_key       |-> location_key,
                bundle_slug        |-> request.bundle_slug,
                lat                |-> request.lat,
                lon                |-> request.lon,
                elevation_m        |-> request.elevation_m,
                name               |-> request.name,
                selected_norad_ids |-> selection_payload(selected),
                requested_by       |-> request.requested_by,
                requested_at       |-> request.requested_at,
                first_seen         |-> now,
                last_seen          |-> now]),
        "insert", commits,
        UpsertReturned(request, location_slug, location_key, selected, key,
                       request.requested_by, request.requested_at, now, now))

UpsertSignatureFound(rows, commits, request, location_key, existing_signature, now) ==
    UpsertOnSignature(rows, commits, request, location_key, existing_signature,
                      PyOr(existing_signature.requested_by, request.requested_by),
                      PyOr(existing_signature.requested_at, request.requested_at), now)

UpsertKeyFound(rows, commits, request, location_slug, location_key, selected, key, existing, now) ==
    UpsertOnKey(rows, commits, request, location_slug, location_key, selected, key,
                existing.first_seen,
                PyOr(existing.requested_by, request.requested_by),
                PyOr(existing.requested_at, request.requested_at), now)

\* A variant of the lookups that goes by the candidate key alone
UpsertLookupByKeyOnly(rows, commits, request, location_slug, location_key, selected, key, now) ==
    IF HasKey(rows, key)
    THEN UpsertKeyFound(rows, commits, request, location_slug, location_key, selected,
                        key, RowByKey(rows, key), now)
    ELSE UpsertInsert(rows, commits, request, location_slug, location_key, selected,
                      key, now)

\* the two lookups of upsert_request, signature first, then the candidate key
UpsertLookup(rows, commits, request, location_slug, location_key, selected, key, now) ==
    IF HasSignature(rows, location_key, request.bundle_slug, selected)
    THEN UpsertSignatureFound(rows, commits, request, location_key,
             get_request_by_signature(rows, location_key, request.bundle_slug, selected),
             now)
    ELSE IF HasKey(rows, key)
    THEN UpsertKeyFound(rows, commits, request, location_slug, location_key, selected,
                        key, RowByKey(rows, key), now)
    ELSE UpsertInsert(rows, commits, request, location_slug, location_key, selected,
                      key, now)

UpsertDerived(ensured, request, location_slug, location_key, selected, now) ==
    UpsertLookup(ensured.rows, ensured.commits, request, location_slug, location_key,
                 selected,
                 request_key_for(location_slug, request.bundle_slug, selected), now)

\* upsert_request: derive slug, location_key, selection and key; backfill;
\* look up; update or insert; commit
upsert_request(rows, request, precision, now) ==
    UpsertDerived(ensure_location_keys(rows, precision), request,
                  resolved_location_slug(request, precision),
                  location_key_for(request.lat, request.lon, precision),
                  normalize_norad_ids(request.selected_norad_ids), now)

\* the index of the first record with the least first_seen, the timestamps
\* compared as texts
FirstEarliest(records) ==
    CHOOSE k \in DOMAIN records :
        /\ \A j \in DOMAIN records :
               ~StrLess(StampText(records[j].first_seen), StampText(records[k].first_seen))
        /\ \A j \in 1..(k - 1) : records[j].first_seen # records[k].first_seen

RemoveAt(seq, i) == SubSeq(seq, 1, i - 1) \o SubSeq(seq, i + 1, Len(seq))

\* sorted(records, key=first_seen): a stable sort
RECURSIVE SortByFirstSeen(_)
SortByFirstSeen(records) ==
    IF records = <<>> THEN <<>>
    ELSE <<records[FirstEarliest(records)]>>
             \o SortByFirstSeen(RemoveAt(records, FirstEarliest(records)))

\* the (location_key, bundle_slug, selection payload) of a record
SignatureOf(record) ==
    <<record.location_key, record.bundle_slug, selection_payload(record.selected_norad_ids)>>

\* the UPDATE of dedupe_requests_by_signature on the record kept: merged from
\* `existing` as it was read at the start of the pass, and `record`
DedupeMergedRow(row, existing, record) ==
    [row EXCEPT !.name         = PyOr(existing.name, record.name),
                !.requested_by = PyOr(existing.requested_by, record.requested_by),
                !.requested_at = PyOr(existing.requested_at, record.requested_at),
                !.first_seen   = MinStamp(existing.first_seen, record.first_seen),
                !.last_seen    = MaxStamp(existing.last_seen, record.last_seen)]

\* A variant of the merge that updates the kept record and deletes nothing
DedupeMergeKeepingBoth(rows, existing, record) ==
    [i \in DOMAIN rows |->
        IF rows[i].request_key = existing.request_key
        THEN DedupeMergedRow(rows[i], existing, record) ELSE rows[i]]

\* UPDATE the kept record, DELETE the duplicate
DedupeMerge(rows, existing, record) ==
    DeleteWhereKey(
        [i \in DOMAIN rows |->
            IF rows[i].request_key = existing.request_key
            THEN DedupeMergedRow(rows[i], existing, record) ELSE rows[i]],
        record.request_key)

\* seen.get(signature)
SeenHas(seen, signature) == \E i \in DOMAIN seen : SignatureOf(seen[i]) = signature

SeenGet(seen, signature) ==
    seen[CHOOSE i \in DOMAIN seen : SignatureOf(seen[i]) = signature]

\* the loop of dedupe_requests_by_signature over the sorted records; `seen`
\* holds the record kept for each signature met so far
RECURSIVE DedupeLoop(_, _, _, _)
DedupeLoop(rows, records, seen, removed) ==
    IF records = <<>> THEN [rows |-> rows, removed |-> removed]
    ELSE IF ~SeenHas(seen, SignatureOf(Head(records)))
    THEN DedupeLoop(rows, Tail(records), Append(seen, Head(records)), removed)
    ELSE DedupeLoop(
             DedupeMerge(rows, SeenGet(seen, SignatureOf(Head(records))), Head(records)),
             Tail(records), seen, removed + 1)

\* `if removed: conn.commit()`
DedupeDone(commits, done) ==
    [rows    |-> done.rows,
     removed |-> done.removed,
     commits |-> IF done.removed > 0 THEN Append(commits, done.rows) ELSE commits]

DedupeEnsured(ensured) ==
    DedupeDone(ensured.commits,
               DedupeLoop(ensured.rows, SortByFirstSeen(list_requests(ensured.rows)),
                          <<>>, 0))

dedupe_requests_by_signature(rows, precision) ==
    DedupeEnsured(ensure_location_keys(rows, precision))

\* A variant that hands a bundle without an entry the ids of a bundle that has
\* one
AvailableForAnyBundle(bundle_available_ids, bundle_slug) ==
    IF bundle_slug \in DOMAIN bundle_available_ids
    THEN bundle_available_ids[bundle_slug]
    ELSE IF DOMAIN bundle_available_ids = {} THEN <<>>
    ELSE bundle_available_ids[CHOOSE b \in DOMAIN bundle_available_ids : TRUE]

\* bundle_available_ids.get(bundle_slug, [])
AvailableFor(bundle_available_ids, bundle_slug) ==
    IF bundle_slug \in DOMAIN bundle_available_ids
    THEN bundle_available_ids[bundle_slug] ELSE <<>>

\* A variant that never substitutes the default for an empty selection
WithDefaultNever(selected, available, max_satellites_per_request) ==
    selected

\* `if not selected: selected = default_selection(available, max)`
WithDefault(selected, available, max_satellites_per_request) ==
    IF selected = <<>> THEN default_selection(available, max_satellites_per_request)
    ELSE selected

\* A variant of the cap that never truncates
CappedNever(selected, max_satellites_per_request) ==
    selected

\* `if selected and len(selected) > max: selected = selected[:max]`
Capped(selected, max_satellites_per_request) ==
    IF selected # <<>> /\ Len(selected) > max_satellites_per_request
    THEN Take(selected, max_satellites_per_request) ELSE selected

\* canonical_selected of one record of canonicalize_requests
CanonicalSelected(stored, available, max_satellites_per_request) ==
    canonicalize_selection(
        Capped(WithDefault(normalize_norad_ids(stored), available,
                           max_satellites_per_request),
               max_satellites_per_request),
        available)

\* the UPDATE of canonicalize_requests on the record that holds the new key:
\* merged from that record as read now, and `record` as read at the start
CanonicalizeMergedRow(row, existing, record) ==
    [row EXCEPT !.name         = PyOr(existing.name, record.name),
                !.requested_by = PyOr(existing.requested_by, record.requested_by),
                !.requested_at = PyOr(existing.requested_at, record.requested_at),
                !.first_seen   = MinStamp(existing.first_seen, record.first_seen),
                !.last_seen    = MaxStamp(existing.last_seen, record.last_seen)]

\* A variant of the merge that deletes the holder of the new key along with
\* the record
CanonicalizeMergeDroppingHolder(rows, new_key, existing, record) ==
    DeleteWhereKey(DeleteWhereKey(rows, new_key), record.request_key)

\* `if existing:` UPDATE the holder of new_key, DELETE the record
CanonicalizeMerge(rows, new_key, existing, record) ==
    DeleteWhereKey(
        [i \in DOMAIN rows |->
            IF rows[i].request_key = new_key
            THEN CanonicalizeMergedRow(rows[i], existing, record) ELSE rows[i]],
        record.request_key)

\* request_key TEXT PRIMARY KEY: a statement that would give a second row this
\* key raises sqlite3.IntegrityError and writes nothing
PrimaryKeyHeld(rows, key) == \E i \in DOMAIN rows : rows[i].request_key = key

IntegrityError == "IntegrityError"

\* A variant of the rename that moves the key and leaves the stored selection
CanonicalizeRenameKeyOnly(rows, record, new_key, canonical_selected) ==
    [i \in DOMAIN rows |->
        IF rows[i].request_key = record.request_key
        THEN [rows[i] EXCEPT !.request_key = new_key]
        ELSE rows[i]]

\* A variant of the rename that stores the selection and leaves the key
CanonicalizeRenameSelectionOnly(rows, record, new_key, canonical_selected) ==
    [i \in DOMAIN rows |->
        IF rows[i].request_key = record.request_key
        THEN [rows[i] EXCEPT !.selected_norad_ids = canonical_selected]
        ELSE rows[i]]

\* `else:` UPDATE requests SET request_key = ?, selected_norad_ids = ?
CanonicalizeRename(rows, record, new_key, canonical_selected) ==
    [i \in DOMAIN rows |->
        IF rows[i].request_key = record.request_key
        THEN [rows[i] EXCEPT !.request_key = new_key,
                             !.selected_norad_ids = canonical_selected]
        ELSE rows[i]]

\* A variant of the loop body that does not count a merge
\* A variant of the loop body that renames without looking for a holder of the
\* new key
CanonicalizeKeyedWithoutMerge(rows, record, canonical_selected, new_key) ==
    IF new_key = record.request_key
    THEN [rows |-> rows, updated |-> 0, branch |-> "same key"]
    ELSE IF PrimaryKeyHeld(rows, new_key)
    THEN [rows |-> rows, updated |-> 0, branch |-> IntegrityError]
    ELSE [rows    |-> CanonicalizeRename(rows, record, new_key, canonical_selected),
          updated |-> 1, branch |-> "rename"]

CanonicalizeKeyedMergeUncounted(rows, record, canonical_selected, new_key) ==
    IF new_key = record.request_key
    THEN [rows |-> rows, updated |-> 0, branch |-> "same key"]
    ELSE IF HasKey(rows, new_key)
    THEN [rows    |-> CanonicalizeMerge(rows, new_key, get_request_by_key(rows, new_key),
                                        record),
          updated |-> 0, branch |-> "merge"]
    ELSE [rows    |-> CanonicalizeRename(rows, record, new_key, canonical_selected),
          updated |-> 1, branch |-> "rename"]

\* one record of the loop, from `new_key = request_key_for(...)` on
CanonicalizeKeyed(rows, record, canonical_selected, new_key) ==
    IF new_key = record.request_key
    THEN [rows |-> rows, updated |-> 0, branch |-> "same key"]
    ELSE IF HasKey(rows, new_key)
    THEN [rows    |-> CanonicalizeMerge(rows, new_key, get_request_by_key(rows, new_key),
                                        record),
          updated |-> 1, branch |-> "merge"]
    ELSE IF PrimaryKeyHeld(rows, new_key)
    THEN [rows |-> rows, updated |-> 0, branch |-> IntegrityError]
    ELSE [rows    |-> CanonicalizeRename(rows, record, new_key, canonical_selected),
          updated |-> 1, branch |-> "rename"]

\* A variant of the loop body that counts a record whose selection it leaves
CanonicalizeSelectedCounted(rows, record, canonical_selected) ==
    IF canonical_selected = record.selected_norad_ids
    THEN [rows |-> rows, updated |-> 1, branch |-> "same selection"]
    ELSE CanonicalizeKeyed(rows, record, canonical_selected,
             request_key_for(record.location_slug, record.bundle_slug, canonical_selected))

\* one record of the loop, from `if canonical_selected == record.selected_norad_ids`
CanonicalizeSelected(rows, record, canonical_selected) ==
    IF canonical_selected = record.selected_norad_ids
    THEN [rows |-> rows, updated |-> 0, branch |-> "same selection"]
    ELSE CanonicalizeKeyed(rows, record, canonical_selected,
             request_key_for(record.location_slug, record.bundle_slug, canonical_selected))

CanonicalizeRecord(rows, record, available, max_satellites_per_request) ==
    CanonicalizeSelected(rows, record,
        CanonicalSelected(record.selected_norad_ids, available, max_satellites_per_request))

\* the loop of canonicalize_requests over the records read at its start; `steps`
\* lists, per record in loop order, the record as read and the branch it took
RECURSIVE CanonicalizeLoop(_, _, _, _, _, _)
CanonicalizeNext(step, records, bundle_available_ids, max_satellites_per_request, updated, steps) ==
    CanonicalizeLoop(step.rows,
                     IF step.branch = IntegrityError THEN <<>> ELSE Tail(records),
                     bundle_available_ids,
                     max_satellites_per_request, updated + step.updated,
                     Append(steps, [record |-> Head(records), branch |-> step.branch]))

CanonicalizeLoop(rows, records, bundle_available_ids, max_satellites_per_request, updated, steps) ==
    IF records = <<>> THEN [rows |-> rows, updated |-> updated, steps |-> steps]
    ELSE CanonicalizeNext(
             CanonicalizeRecord(rows, Head(records),
                 AvailableFor(bundle_available_ids, Head(records).bundle_slug),
                 max_satellites_per_request),
             records, bundle_available_ids, max_satellites_per_request, updated, steps)

\* the statement of some record raised: the exception leaves the function
\* before its commit
Raised(steps) == \E k \in DOMAIN steps : steps[k].branch = IntegrityError

\* `if updated: conn.commit()`; after an exception the caller closes the
\* connection, which drops what the pass wrote
CanonicalizeDone(rows, done) ==
    [rows    |-> IF Raised(done.steps) THEN rows ELSE done.rows,
     updated |-> done.updated,
     steps   |-> done.steps,
     failed  |-> Raised(done.steps),
     commits |-> IF done.updated > 0 /\ ~Raised(done.steps)
                 THEN <<done.rows>> ELSE <<>>]

canonicalize_requests(rows, bundle_available_ids, max_satellites_per_request) ==
    CanonicalizeDone(rows,
        CanonicalizeLoop(rows, list_requests(rows), bundle_available_ids,
                         max_satellites_per_request, 0, <<>>))

\* ----------------------------------------------------------- legacy importer

\* parts[1] of slug.split("--"), for a slug that contains "--"
SplitRest(s) ==
    LET i == CHOOSE k \in 1..(Len(s) - 1) :
                 /\ s[k] = 45 /\ s[k + 1] = 45
                 /\ \A j \in 1..(k - 1) : ~(s[j] = 45 /\ s[j + 1] = 45)
    IN  SubSeq(s, i + 2, Len(s))

SplitSecond(s) == IF HasSep(SplitRest(s)) THEN SplitFirst(SplitRest(s)) ELSE SplitRest(s)

\* A request file is [empty, request]: `empty` when yaml.safe_load gives None.
\* load_requests raises ConfigError for a file whose bundle_slug is not a
\* bundle of the config, or whose slug names another bundle after "--"
Rejected(file, bundle_slugs) ==
    /\ ~file.empty
    /\ \/ file.request.bundle_slug \notin bundle_slugs
       \/ /\ file.request.slug # NullText
          /\ HasSep(file.request.slug)
          /\ SplitSecond(file.request.slug) # file.request.bundle_slug

\* `if not slug: data["slug"] = compute_location_slug(lat, lon, precision)`
WithComputedSlug(request, precision) ==
    IF request.slug = NullText \/ request.slug = <<>>
    THEN [request EXCEPT !.slug = compute_location_slug(request.lat, request.lon, precision)]
    ELSE request

\* the requests of the files in path order; `if data is None: continue`
RECURSIVE LoadedRequests(_, _)
LoadedRequests(files, precision) ==
    IF files = <<>> THEN <<>>
    ELSE IF Head(files).empty THEN LoadedRequests(Tail(files), precision)
    ELSE <<WithComputedSlug(Head(files).request, precision)>>
             \o LoadedRequests(Tail(files), precision)

\* load_requests(requests_dir, config): every file is read and validated, in
\* sorted path order, before the list is returned; the first rejected file
\* raises and no list is returned
load_requests(files, bundle_slugs, precision) ==
    IF \E i \in DOMAIN files : Rejected(files[i], bundle_slugs)
    THEN [failed |-> TRUE, requests |-> <<>>]
    ELSE [failed |-> FALSE, requests |-> LoadedRequests(files, precision)]

\* `for req in load_requests(...): records.append(upsert_request(conn, req, ...))`
\* each upsert reads the clock anew
RECURSIVE MigrateLoop(_, _, _, _, _)
MigrateNext(done, requests, precision, now, results) ==
    MigrateLoop(done.rows, Tail(requests), precision, now,
                Append(results, [request |-> Head(requests), path |-> done.path,
                                 ret |-> done.ret]))

MigrateLoop(rows, requests, precision, clock, results) ==
    IF requests = <<>>
    THEN [rows |-> rows, results |-> results, failed |-> FALSE, clock |-> clock]
    ELSE MigrateNext(upsert_request(rows, Head(requests), precision, clock + 1),
                     requests, precision, clock + 1, results)

MigrateLoaded(rows, loaded, precision, clock) ==
    IF loaded.failed
    THEN [rows |-> rows, results |-> <<>>, failed |-> TRUE, clock |-> clock]
    ELSE MigrateLoop(rows, loaded.requests, precision, clock, <<>>)

\* migrate_yaml_requests(config, conn, requests_dir); `files` are the *.yaml
\* files of the directory in sorted path order
migrate_yaml_requests(rows, files, bundle_slugs, precision, clock) ==
    IF files = <<>>
    THEN [rows |-> rows, results |-> <<>>, failed |-> FALSE, clock |-> clock]
    ELSE MigrateLoaded(rows, load_requests(files, bundle_slugs, precision), precision, clock)

\* ------------------------------------------------------------------ inputs

\* bundle slugs "iss" and "sun"
Iss == <<105, 115, 115>>

Sun == <<115, 117, 110>>

\* the caller-supplied slug "home"
Home == <<104, 111, 109, 101>>

\* the caller-supplied slug "den"
Den == <<100, 101, 110>>

\* (slug, lat, lon), the coordinates in units of 10^-(Precision+1): with
\* Precision = 1, latitudes 2 and -3 round to 0.0 and -0.0 (one location_key)
\* and latitude 12 rounds to 0.1
NearPlaces == {<<NullText, 2, -14>>, <<Home, -3, -14>>}

FarPlaces == {<<NullText, 12, -14>>, <<Home, 12, -14>>}

\* incoming selections, as the caller wrote them
Selections == {<<>>, <<2, 1>>, <<1, 4>>, <<4>>}

Attribution(name, requested_by, requested_at) ==
    [name |-> name, requested_by |-> requested_by, requested_at |-> requested_at]

NoAttribution == Attribution(None, None, None)

Seattle == Attribution("Seattle", "alice", "t1")

Attributions ==
    {NoAttribution,
     Seattle,
     Attribution(None, "bob", "t2"),
     Attribution(None, "", None)}

\* RequestedLocation
Request(place, bundle_slug, selected_norad_ids, attribution) ==
    [slug               |-> place[1],
     name               |-> attribution.name,
     lat                |-> place[2],
     lon                |-> place[3],
     elevation_m        |-> 0,
     bundle_slug        |-> bundle_slug,
     selected_norad_ids |-> selected_norad_ids,
     requested_by       |-> attribution.requested_by,
     requested_at       |-> attribution.requested_at]

\* the requests of the model: every attribution at the two places that share
\* a location_key, fewer elsewhere; one selection lists an id twice
Requests ==
    {Request(p, Iss, s, a) : p \in NearPlaces, s \in {<<>>, <<2, 1>>}, a \in Attributions}
    \cup {Request(p, Iss, s, NoAttribution) : p \in NearPlaces, s \in {<<1, 4>>, <<4>>}}
    \cup {Request(p, Iss, <<1, 4>>, Seattle) : p \in NearPlaces}
    \cup {Request(<<NullText, 2, -14>>, Iss, <<4, 1, 4>>, NoAttribution)}
    \cup {Request(<<Home, 12, -14>>, Iss, <<>>, Attribution(None, "bob", "t2"))}
    \cup {Request(p, Iss, s, NoAttribution) : p \in FarPlaces, s \in {<<>>, <<1, 4>>}}
    \cup {Request(p, Sun, <<>>, NoAttribution) : p \in {<<NullText, 2, -14>>, <<Home, 12, -14>>}}

\* the selections request keys are computed for: empty, in and out of order,
\* with a repeated id, with catalogue numbers of five digits
KeySelections ==
    {<<>>, <<1>>, <<2, 1>>, <<1, 2>>, <<1, 2, 1>>, <<25544, 20580>>,
     <<20580, 25544, 25544>>}

\* the location slugs request keys are computed for
KeySlugs == {Home, compute_location_slug(2, -14, Precision)}

\* config.bundles
KnownBundles == {Iss, Sun}

\* the bundles of kind "planetary"
PlanetaryBundles == {Sun}

\* a bundle slug "x" the config does not define
Unknown == <<120>>

RequestFile(request) == [empty |-> FALSE, request |-> request]

EmptyFile == [empty |-> TRUE, request |-> Request(<<NullText, 0, 0>>, <<>>, <<>>, NoAttribution)]

\* request files for one place: without attribution, under the slug "home"
\* from bob, from alice, with an empty requested_by; for the slug "home" at
\* another place; for an unknown bundle
PlainFile == RequestFile(Request(<<NullText, 2, -14>>, Iss, <<>>, NoAttribution))

BobFile == RequestFile(Request(<<Home, -3, -14>>, Iss, <<>>, Attribution(None, "bob", "t2")))

AliceFile == RequestFile(Request(<<NullText, 2, -14>>, Iss, <<>>, Seattle))

BlankByFile == RequestFile(Request(<<NullText, 2, -14>>, Iss, <<>>, Attribution(None, "", None)))

FarFile == RequestFile(Request(<<Home, 12, -14>>, Iss, <<>>, NoAttribution))

UnknownFile == RequestFile(Request(<<NullText, 2, -14>>, Unknown, <<>>, NoAttribution))

\* a REQUEST_SELECTED_IDS whose JSON value is no list (no id is -1)
NotAList == <<-1>>

\* a slug override "Home": an uppercase letter is no slug character
Capitalized == <<72, 111, 109, 101>>

\* the requests main rejects: a selection that is no list, an unknown bundle,
\* a slug override that is no slug, a planetary bundle with a selected id
RejectedRequests ==
    {Request(<<NullText, 2, -14>>, Iss, NotAList, NoAttribution),
     Request(<<NullText, 2, -14>>, Unknown, <<>>, NoAttribution),
     Request(<<Capitalized, 2, -14>>, Iss, <<>>, NoAttribution),
     Request(<<NullText, 2, -14>>, Sun, <<4>>, NoAttribution)}

\* the request directories of the model, each the sequence of its files in
\* sorted path order
Directories ==
    {<<>>,
     <<PlainFile, BobFile, AliceFile>>,
     <<AliceFile, BobFile>>,
     <<BlankByFile, BobFile>>,
     <<PlainFile, UnknownFile, BobFile>>,
     <<EmptyFile, PlainFile>>,
     <<FarFile, BobFile, PlainFile>>}

\* availability per bundle, as the build hands it to canonicalize_requests
\* (bundle "sun" has no entry; a build that fetched no satellite bundle hands
\* an empty map)
AvailabilityMaps ==
    {[b \in {Iss} |-> <<1, 2>>], [b \in {Iss} |-> <<3, 1, 2>>], [b \in {} |-> <<>>]}

\* request_defaults.max_satellites_per_request (at least 1)
Caps == {1, 2}

\* A row written before the location_key column existed: init_db adds the
\* column, which leaves location_key NULL in every such row.
LegacyRow(request, first_seen, last_seen) ==
    [request_key        |-> request_key_for(resolved_location_slug(request, Precision),
                                            request.bundle_slug,
                                            request.selected_norad_ids),
     location_slug      |-> resolved_location_slug(request, Precision),
     location_key       |-> NullText,
     bundle_slug        |-> request.bundle_slug,
     lat                |-> request.lat,
     lon                |-> request.lon,
     elevation_m        |-> request.elevation_m,
     name               |-> request.name,
     selected_norad_ids |-> selection_payload(request.selected_norad_ids),
     requested_by       |-> request.requested_by,
     requested_at       |-> request.requested_at,
     first_seen         |-> first_seen,
     last_seen          |-> last_seen]

\* three rows of an earlier version for one place under three slugs
LegacyA == LegacyRow(Request(<<NullText, 2, -14>>, Iss, <<>>, NoAttribution), 0, 0)

LegacyB ==
    LegacyRow(Request(<<Home, -3, -14>>, Iss, <<>>, Attribution("Cabin", "carol", None)),
              1, 3)

LegacyC == LegacyRow(Request(<<Den, 2, -14>>, Iss, <<>>, NoAttribution), 2, 2)

\* the tables init_db can return: a new table, or one of an earlier version
LegacyStores == {<<>>, <<LegacyA, LegacyB>>, <<LegacyA, LegacyB, LegacyC>>}

\* the clock when the table is opened: no legacy timestamp is later
OpenedAt == Max(LegacyB.last_seen, LegacyC.last_seen)

\* ------------------------------------------------------------- connections

\* the connection of a run: never made, made and not closed, closed
NoConnection == "none"

Open == "open"

Closed == "closed"

\* the request and the record of an operation that has none
NoRequest == Request(<<NullText, 0, 0>>, <<>>, <<>>, NoAttribution)

NoRecord == LegacyRow(NoRequest, 0, 0)

\* the ways opening the database can go: sqlite3.connect raises; connect
\* returns the connection and a later statement of init_db raises (the file
\* is not a database, the database is locked); init_db returns
ConnectRaises == "connect raises"

ExecuteRaises == "execute raises"

Returns == "returns"

Openings == {ConnectRaises, ExecuteRaises, Returns}

\* init_db(db_path): `conn = sqlite3.connect(db_path)`, then CREATE TABLE,
\* PRAGMA, ALTER TABLE and commit with no try around them, `return conn`; a
\* statement that raises leaves the function with the connection still open
init_db(opening) ==
    [raised     |-> opening # Returns,
     connection |-> IF opening = ConnectRaises THEN NoConnection ELSE Open]

\* conn.close()
close(connection) == Closed

\* the request the intake script builds from its environment: the slug is the
\* override or the computed slug, and `os.environ.get(...) or None` turns an
\* empty name, requested_by or requested_at into None
PersistedRequest(request, precision) ==
    [WithComputedSlug(request, precision) EXCEPT
         !.name         = IF @ = "" THEN None ELSE @,
         !.requested_by = IF @ = "" THEN None ELSE @,
         !.requested_at = IF @ = "" THEN None ELSE @]

\* `if not get_request_by_key(conn, record.request_key): raise RuntimeError`,
\* `except Exception: return 1`, `finally: conn.close()`, `return 0`
PersistChecked(done, connection, now) ==
    [rows       |-> done.rows,
     clock      |-> now,
     path       |-> done.path,
     ret        |-> done.ret,
     raised     |-> FALSE,
     exit       |-> IF HasKey(done.rows, done.ret.request_key) THEN 0 ELSE 1,
     connection |-> close(connection)]

\* init_db is called before the `try`: when it raises, the run raises and
\* neither `except` nor `finally` is entered
PersistOpened(rows, opened, request, precision, clock) ==
    IF opened.raised
    THEN [rows |-> rows, clock |-> clock, path |-> "none", ret |-> NoRecord,
          raised |-> TRUE, exit |-> 1, connection |-> opened.connection]
    ELSE PersistChecked(upsert_request(rows, request, precision, clock + 1),
                        opened.connection, clock + 1)

\* scripts/issueops_persist_request.py main(), from `conn = init_db(db_path)`
persist_request(rows, request, precision, clock, opening) ==
    PersistOpened(rows, init_db(opening), PersistedRequest(request, precision),
                  precision, clock)

\* SLUG_CHARS: lowercase letters, digits, "-" and "_"
SlugChar(c) == (c >= 97 /\ c <= 122) \/ (c >= 48 /\ c <= 57) \/ c = 45 \/ c = 95

\* _is_slug(value)
is_slug(value) == value # <<>> /\ \A i \in DOMAIN value : SlugChar(value[i])

\* A variant of the checks of main that lets a planetary bundle through with
\* its selected ids
IntakeRejectedUnlessPlanetary(request, bundle_slugs, planetary) ==
    \/ request.selected_norad_ids = NotAList
    \/ request.bundle_slug \notin bundle_slugs
    \/ request.slug # NullText /\ ~is_slug(request.slug)

\* the checks of main that `return 1` before the database is opened: the
\* selection is no list, the bundle is none of the config, the slug override
\* is no slug, a planetary bundle comes with selected ids
IntakeRejected(request, bundle_slugs, planetary) ==
    \/ request.selected_norad_ids = NotAList
    \/ request.bundle_slug \notin bundle_slugs
    \/ request.slug # NullText /\ ~is_slug(request.slug)
    \/ request.bundle_slug \in planetary /\ request.selected_norad_ids # <<>>

\* scripts/issueops_persist_request.py main(): the checks, then the database
main(rows, request, bundle_slugs, planetary, precision, clock, opening) ==
    IF IntakeRejected(request, bundle_slugs, planetary)
    THEN [rows |-> rows, clock |-> clock, path |-> "rejected", ret |-> NoRecord,
          raised |-> FALSE, exit |-> 1, connection |-> NoConnection]
    ELSE persist_request(rows, request, precision, clock, opening)

\* `try: migrate_yaml_requests(...); ensure_location_keys(...); return
\* load_requests_from_db(conn)`, `finally: conn.close()`; a rejected request
\* file raises inside the `try`
EnsureMigrated(migrated, connection, precision) ==
    [rows       |-> IF migrated.failed THEN migrated.rows
                    ELSE ensure_location_keys(migrated.rows, precision).rows,
     clock      |-> migrated.clock,
     results    |-> migrated.results,
     raised     |-> migrated.failed,
     connection |-> close(connection)]

EnsureOpened(rows, opened, files, bundle_slugs, precision, clock) ==
    IF opened.raised
    THEN [rows |-> rows, clock |-> clock, results |-> <<>>, raised |-> TRUE,
          connection |-> opened.connection]
    ELSE EnsureMigrated(migrate_yaml_requests(rows, files, bundle_slugs, precision, clock),
                        opened.connection, precision)

\* ensure_db_loaded(config=config, db_path=db_path, requests_dir=requests_dir)
ensure_db_loaded(rows, files, bundle_slugs, precision, clock, opening) ==
    EnsureOpened(rows, init_db(opening), files, bundle_slugs, precision, clock)

\* ------------------------------------------------------------------ seeding

\* A seed file is [found, list, entries]: `found` unless path.read_text raises
\* FileNotFoundError, `list` when the YAML is a list or has a 'requests' list
\* (an empty file loads as no entries); an entry is [valid, request], `valid`
\* when SeedRequest.model_validate accepts it
SeedEntry(valid, request) == [valid |-> valid, request |-> request]

SeedFile(found, list, entries) == [found |-> found, list |-> list, entries |-> entries]

\* load_seed_requests(path): ConfigError for a missing file, for YAML that is
\* no list and for the first entry that fails validation
load_seed_requests(file) ==
    IF ~file.found \/ ~file.list \/ \E i \in DOMAIN file.entries : ~file.entries[i].valid
    THEN [failed |-> TRUE, requests |-> <<>>]
    ELSE [failed |-> FALSE, requests |-> [i \in DOMAIN file.entries |-> file.entries[i].request]]

\* `if reset and db_path.exists(): db_path.unlink()`; init_db then creates the table
SeedReset(rows, reset) == IF reset THEN <<>> ELSE rows

\* the selection of a satellite bundle's entry: the default when none is
\* given, cut to max_sats, then canonicalize_selection
SeedSelection(selected_ids, available_ids, max_sats) ==
    canonicalize_selection(
        Take(IF selected_ids = <<>> THEN default_selection(available_ids, max_sats)
             ELSE selected_ids,
             max_sats),
        available_ids)

\* the entry raises before its upsert: ConfigError for a bundle that is none
\* of the config and for a planetary bundle with selected ids, ValidationError
\* of RequestedLocation for a slug that is no slug
SeedRaises(seed, bundle_slugs, planetary) ==
    \/ seed.bundle_slug \notin bundle_slugs
    \/ seed.bundle_slug \in planetary /\ seed.selected_norad_ids # <<>>
    \/ seed.slug # NullText /\ seed.slug # <<>> /\ ~is_slug(seed.slug)

\* RequestedLocation(slug=slug, ..., selected_norad_ids=canonical_selected, ...)
SeededRequest(seed, available_ids, max_sats, planetary, precision) ==
    [WithComputedSlug(seed, precision) EXCEPT
         !.selected_norad_ids =
             IF seed.bundle_slug \in planetary THEN <<>>
             ELSE SeedSelection(seed.selected_norad_ids, available_ids, max_sats)]

\* `for seed in seed_requests:` each upsert reads the clock anew and commits;
\* an entry that raises ends the loop
RECURSIVE SeedLoop(_, _, _, _, _, _, _)
SeedNext(done, seeds, config, precision, now, inserted, results) ==
    SeedLoop(done.rows, Tail(seeds), config, precision, now, inserted + 1,
             Append(results, [request |-> Head(seeds), path |-> done.path, ret |-> done.ret]))

SeedLoop(rows, seeds, config, precision, clock, inserted, results) ==
    IF seeds = <<>>
    THEN [rows |-> rows, clock |-> clock, inserted |-> inserted, results |-> results,
          failed |-> FALSE]
    ELSE IF SeedRaises(Head(seeds), config.bundle_slugs, config.planetary)
    THEN [rows |-> rows, clock |-> clock, inserted |-> inserted, results |-> results,
          failed |-> TRUE]
    ELSE SeedNext(upsert_request(rows,
                      SeededRequest(Head(seeds),
                                    AvailableFor(config.norad_ids, Head(seeds).bundle_slug),
                                    config.max_sats, config.planetary, precision),
                      precision, clock + 1),
                  seeds, config, precision, clock + 1, inserted, results)

\* `finally: conn.close()`
SeedClosed(done, connection) ==
    [rows |-> done.rows, clock |-> done.clock, inserted |-> done.inserted,
     results |-> done.results, failed |-> done.failed,
     path |-> IF done.failed THEN "entry" ELSE "none",
     connection |-> close(connection)]

\* `conn = init_db(db_path)` is before the `try`
SeedOpened(rows, opened, seeds, config, precision, clock) ==
    IF opened.raised
    THEN [rows |-> rows, clock |-> clock, inserted |-> 0, results |-> <<>>, failed |-> TRUE,
          path |-> "open", connection |-> opened.connection]
    ELSE SeedClosed(SeedLoop(rows, seeds, config, precision, clock, 0, <<>>),
                    opened.connection)

\* A variant that deletes the database before it loads the seed file
SeedLoadedAfterReset(rows, loaded, config, precision, clock, reset, opening) ==
    IF loaded.failed
    THEN [rows |-> SeedReset(rows, reset), clock |-> clock, inserted |-> 0, results |-> <<>>,
          failed |-> TRUE, path |-> "load", connection |-> NoConnection]
    ELSE SeedOpened(SeedReset(rows, reset), init_db(opening), loaded.requests, config,
                    precision, clock)

\* `seed_requests = load_seed_requests(seed_path)` raises before the database
\* is touched
SeedLoaded(rows, loaded, config, precision, clock, reset, opening) ==
    IF loaded.failed
    THEN [rows |-> rows, clock |-> clock, inserted |-> 0, results |-> <<>>, failed |-> TRUE,
          path |-> "load", connection |-> NoConnection]
    ELSE SeedOpened(SeedReset(rows, reset), init_db(opening), loaded.requests, config,
                    precision, clock)

\* seed_requests(config=config, seed_path=seed_path, db_path=db_path, reset=reset)
seed_requests(rows, file, config, precision, clock, reset, opening) ==
    SeedLoaded(rows, load_seed_requests(file), config, precision, clock, reset, opening)

\* ------------------------------------------------------------------- state

VARIABLES
    store,   \* table `requests`: its rows in rowid order
    clock,   \* the last reading of _utc_now
    ops,     \* number of operations run
    last,    \* the last operation: its input, its result, the table before it
    prior    \* the operation before the last one

vars == <<store, clock, ops, last, prior>>

Nothing ==
    [op |-> "none", request |-> NoRequest, available |-> [b \in {} |-> <<>>], cap |-> 0,
     path |-> "none", ret |-> NoRecord, count |-> 0, commits |-> <<>>, before |-> <<>>,
     now |-> 0, steps |-> <<>>, failed |-> FALSE, files |-> <<>>, results |-> <<>>,
     opening |-> Returns, exit |-> 0, connection |-> NoConnection, key |-> <<>>,
     reset |-> FALSE, seed |-> SeedFile(TRUE, TRUE, <<>>)]

Init ==
    /\ store \in LegacyStores
    /\ clock = OpenedAt
    /\ ops = 0
    /\ last = Nothing
    /\ prior = Nothing

\* the first tick whose stamp is a whole second
OnSecond == TicksPerSecond - TicksPerSecond \div 2

\* the table after an upsert on a whole second, an upsert one tick later and a
\* canonicalize pass that cuts both selections to the same one: two records
\* of one signature under the keys of their slugs
StoreOnSecond ==
    canonicalize_requests(
        upsert_request(
            upsert_request(<<>>, Request(<<Home, -3, -14>>, Iss, <<2, 1>>, NoAttribution),
                           Precision, OnSecond).rows,
            Request(<<NullText, 2, -14>>, Iss, <<1, 4>>, Seattle), Precision,
            OnSecond + 1).rows,
        [b \in {Iss} |-> <<1, 2>>], 1).rows

\* the table is opened one tick before a whole second, or holds records
\* stamped on a whole second and after it
InitOnSecond ==
    /\ \/ store \in LegacyStores /\ clock = OnSecond - 1
       \/ store = StoreOnSecond /\ clock = OnSecond + 1
    /\ ops = 0
    /\ last = Nothing
    /\ prior = Nothing

InitEmpty ==
    /\ store = <<>>
    /\ clock = OpenedAt
    /\ ops = 0
    /\ last = Nothing
    /\ prior = Nothing

UpsertApplied(done, request, now) ==
    /\ store' = done.rows
    /\ clock' = now
    /\ last' = [Nothing EXCEPT !.op = "upsert", !.request = request, !.now = now,
                               !.path = done.path, !.ret = done.ret,
                               !.commits = done.commits, !.before = store]

\* upsert_request(conn, request, precision=Precision)
Upsert ==
    /\ ops < MaxOps
    /\ \E request \in Requests :
         UpsertApplied(upsert_request(store, request, Precision, clock + 1),
                       request, clock + 1)
    /\ ops' = ops + 1
    /\ prior' = last

CanonicalizeApplied(done, bundle_available_ids, cap) ==
    /\ store' = done.rows
    /\ last' = [Nothing EXCEPT !.op = "canonicalize",
                               !.available = bundle_available_ids, !.cap = cap,
                               !.count = done.updated, !.steps = done.steps,
                               !.failed = done.failed,
                               !.commits = done.commits, !.before = store]

\* canonicalize_requests(conn, bundle_available_ids, max_satellites_per_request)
Canonicalize ==
    /\ ops < MaxOps
    /\ \E bundle_available_ids \in AvailabilityMaps, cap \in Caps :
         CanonicalizeApplied(canonicalize_requests(store, bundle_available_ids, cap),
                             bundle_available_ids, cap)
    /\ ops' = ops + 1
    /\ prior' = last
    /\ UNCHANGED clock

DedupeApplied(done) ==
    /\ store' = done.rows
    /\ last' = [Nothing EXCEPT !.op = "dedupe", !.count = done.removed,
                               !.commits = done.commits, !.before = store]

\* dedupe_requests_by_signature(conn, Precision)
Dedupe ==
    /\ ops < MaxOps
    /\ DedupeApplied(dedupe_requests_by_signature(store, Precision))
    /\ ops' = ops + 1
    /\ prior' = last
    /\ UNCHANGED clock

MigrateApplied(done, files) ==
    /\ store' = done.rows
    /\ clock' = done.clock
    /\ last' = [Nothing EXCEPT !.op = "migrate", !.files = files,
                               !.results = done.results, !.failed = done.failed,
                               !.before = store]

\* migrate_yaml_requests(config=config, conn=conn, requests_dir=requests_dir)
Migrate ==
    /\ ops < MaxOps
    /\ \E files \in Directories :
         MigrateApplied(migrate_yaml_requests(store, files, KnownBundles, Precision, clock),
                        files)
    /\ ops' = ops + 1
    /\ prior' = last

\* a run whose opening raises never reads its directory, and reads its
\* request only for the checks before the opening: one accepted request and
\* one directory stand for all of them
RequestsReached(opening) ==
    IF opening = Returns THEN Requests \cup RejectedRequests ELSE {PlainFile.request}

DirectoriesReached(opening) == IF opening = Returns THEN Directories ELSE {<<>>}

PersistApplied(done, request, opening) ==
    /\ store' = done.rows
    /\ clock' = done.clock
    /\ last' = [Nothing EXCEPT !.op = "persist", !.request = request,
                               !.opening = opening, !.path = done.path,
                               !.ret = done.ret, !.failed = done.raised,
                               !.exit = done.exit, !.connection = done.connection,
                               !.before = store]

\* one run of the intake script
PersistRequest ==
    /\ ops < MaxOps
    /\ \E opening \in Openings :
         \E request \in RequestsReached(opening) :
           PersistApplied(main(store, request, KnownBundles, PlanetaryBundles,
                               Precision, clock, opening),
                          request, opening)
    /\ ops' = ops + 1
    /\ prior' = last

EnsureApplied(done, files, opening) ==
    /\ store' = done.rows
    /\ clock' = done.clock
    /\ last' = [Nothing EXCEPT !.op = "ensure", !.files = files, !.opening = opening,
                               !.results = done.results, !.failed = done.raised,
                               !.connection = done.connection, !.before = store]

\* one call of ensure_db_loaded
EnsureDbLoaded ==
    /\ ops < MaxOps
    /\ \E opening \in Openings :
         \E files \in DirectoriesReached(opening) :
           EnsureApplied(ensure_db_loaded(store, files, KnownBundles, Precision, clock,
                                          opening),
                         files, opening)
    /\ ops' = ops + 1
    /\ prior' = last

RequestKeyApplied(key, request) ==
    last' = [Nothing EXCEPT !.op = "key", !.request = request, !.key = key,
                            !.before = store]

\* request_key_for(location_slug=..., bundle_slug=..., selected_norad_ids=...);
\* the location slug is carried in the slug of the recorded request
RequestKey ==
    /\ ops < MaxOps
    /\ \E slug \in KeySlugs, bundle_slug \in KnownBundles, ids \in KeySelections :
         RequestKeyApplied(request_key_for(slug, bundle_slug, ids),
                           Request(<<slug, 0, 0>>, bundle_slug, ids, NoAttribution))
    /\ ops' = ops + 1
    /\ prior' = last
    /\ UNCHANGED <<store, clock>>

\* the round upsert(r), canonicalize, upsert(r), canonicalize on an empty
\* table: the second upsert repeats the request of the first
RoundUpsert ==
    /\ ops \in {0, 2}
    /\ \E request \in Requests :
         /\ ops = 2 => request = prior.request
         /\ UpsertApplied(upsert_request(store, request, Precision, clock + 1),
                          request, clock + 1)
    /\ ops' = ops + 1
    /\ prior' = last

\* the second pass repeats the availability and the cap of the first
RoundCanonicalize ==
    /\ ops \in {1, 3}
    /\ \E bundle_available_ids \in AvailabilityMaps, cap \in Caps :
         /\ ops = 3 => bundle_available_ids = prior.available /\ cap = prior.cap
         /\ CanonicalizeApplied(canonicalize_requests(store, bundle_available_ids, cap),
                                bundle_available_ids, cap)
    /\ ops' = ops + 1
    /\ prior' = last
    /\ UNCHANGED clock

Next == Upsert \/ Canonicalize \/ Dedupe

Spec == Init /\ [][Next]_vars

SpecEmpty == InitEmpty /\ [][Next]_vars

\* the same operations when the first reading of the clock falls on a whole
\* second and the following readings in the same second
SpecOnSecond == InitOnSecond /\ [][Next]_vars

\* the intake and the importer on one table: upserts and imports in any order
NextImport == Upsert \/ Migrate

SpecImport == Init /\ [][NextImport]_vars

\* the runs that open the database themselves, in any order
NextRuns == PersistRequest \/ EnsureDbLoaded

SpecRuns == Init /\ [][NextRuns]_vars

\* request keys computed while the table changes under them
NextKeys == RequestKey \/ Dedupe

SpecKeys == Init /\ [][NextKeys]_vars

\* upserts alone, into a new table
SpecUpserts == InitEmpty /\ [][Upsert]_vars

\* the requests the tables of the repeated passes are built from
PassRequests ==
    {Request(p, Iss, s, NoAttribution) : p \in NearPlaces,
                                         s \in {<<>>, <<2, 1>>, <<1, 4>>, <<4>>}}

\* the tables two upserts leave, in a new table or one of an earlier version
StartTables ==
    {upsert_request(upsert_request(rows, r1, Precision, OpenedAt + 1).rows, r2,
                    Precision, OpenedAt + 2).rows :
         rows \in LegacyStores, r1 \in PassRequests, r2 \in PassRequests}

InitPasses ==
    /\ store \in StartTables
    /\ clock = OpenedAt + 2
    /\ ops = 0
    /\ last = Nothing
    /\ prior = Nothing

\* canonicalize_requests called again and again with no upsert in between:
\* the first pass takes any availability and cap, the later ones repeat them
Pass ==
    /\ ops < MaxPasses
    /\ \E bundle_available_ids \in AvailabilityMaps, cap \in Caps :
         /\ last.op = "canonicalize" =>
                bundle_available_ids = last.available /\ cap = last.cap
         /\ \E done \in {canonicalize_requests(store, bundle_available_ids, cap)} :
                CanonicalizeApplied(done, bundle_available_ids, cap)
    /\ ops' = ops + 1
    /\ prior' = last
    /\ UNCHANGED clock

\* a pass has been run: every Pass step is one, and one is possible exactly when Pass is
PassRun == ops < MaxPasses /\ ops' = ops + 1

\* the caller re-runs the pass as long as it may
SpecPasses == InitPasses /\ [][Pass]_vars /\ WF_ops(PassRun)

\* the entries of the seed files: requested_by defaults to "seed"
Seeded == Attribution(None, "seed", None)

GoodHome == SeedEntry(TRUE, Request(<<Home, -3, -14>>, Iss, <<2, 1>>, Seeded))

GoodPlain == SeedEntry(TRUE, Request(<<NullText, 2, -14>>, Iss, <<>>, Seeded))

GoodSun == SeedEntry(TRUE, Request(<<NullText, 2, -14>>, Sun, <<>>, Seeded))

UnknownBundle == SeedEntry(TRUE, Request(<<NullText, 2, -14>>, Unknown, <<>>, Seeded))

SunWithIds == SeedEntry(TRUE, Request(<<Home, -3, -14>>, Sun, <<1>>, Seeded))

BadSlug == SeedEntry(TRUE, Request(<<Capitalized, 2, -14>>, Iss, <<>>, Seeded))

Invalid == SeedEntry(FALSE, NoRequest)

SeedEntries == {GoodHome, GoodPlain, GoodSun, UnknownBundle, SunWithIds, Invalid}

\* a missing file, YAML that is no list, and lists of entries
SeedFiles ==
    {SeedFile(FALSE, FALSE, <<>>), SeedFile(TRUE, FALSE, <<>>), SeedFile(TRUE, TRUE, <<>>)}
    \cup {SeedFile(TRUE, TRUE, <<e>>) : e \in SeedEntries}
    \cup {SeedFile(TRUE, TRUE, <<e1, e2>>) : e1 \in SeedEntries, e2 \in SeedEntries}
    \cup {SeedFile(TRUE, TRUE, entries) :
              entries \in {<<GoodHome, GoodPlain, UnknownBundle>>,
                           <<GoodHome, GoodSun, SunWithIds>>,
                           <<GoodPlain, GoodHome, BadSlug>>,
                           <<GoodHome, GoodPlain, Invalid>>}}

SeedFilesReached(opening) ==
    IF opening = Returns THEN SeedFiles ELSE {SeedFile(TRUE, TRUE, <<GoodHome>>)}

\* config.bundles and config.request_defaults
SeedConfig(max_sats) ==
    [bundle_slugs |-> KnownBundles, planetary |-> PlanetaryBundles,
     norad_ids |-> [b \in {Iss} |-> <<3, 1, 2>>], max_sats |-> max_sats]

SeedApplied(done, file, max_sats, reset, opening) ==
    /\ store' = done.rows
    /\ clock' = done.clock
    /\ last' = [Nothing EXCEPT !.op = "seed", !.seed = file, !.cap = max_sats,
                               !.reset = reset, !.opening = opening, !.path = done.path,
                               !.count = done.inserted, !.results = done.results,
                               !.failed = done.failed, !.connection = done.connection,
                               !.now = clock, !.before = store]

\* seed_requests(config=config, seed_path=seed_path, db_path=db_path, reset=reset)
Seed ==
    /\ ops < MaxSeeds
    /\ \E opening \in Openings, reset \in BOOLEAN, max_sats \in Caps :
         \E file \in SeedFilesReached(opening) :
           SeedApplied(seed_requests(store, file, SeedConfig(max_sats), Precision, clock,
                                     reset, opening),
                       file, max_sats, reset, opening)
    /\ ops' = ops + 1
    /\ prior' = last

\* the seed command, run on a table of an earlier version or a new one
SpecSeed == Init /\ [][Seed]_vars

NextRound == RoundUpsert \/ RoundCanonicalize

SpecRound == InitEmpty /\ [][NextRound]_vars

\* requests whose selections share a fingerprint: selection_hash gives
\* a74631d4 for [2265, 964452] and for [2265]
CollidingRequests ==
    {Request(p, Iss, s, a) : p \in NearPlaces \cup {<<Home, 12, -14>>},
                             s \in {<<2265, 964452>>, <<2265>>},
                             a \in {NoAttribution, Seattle}}

\* upsert_request(conn, request, precision=...) of one of these requests
UpsertColliding ==
    /\ ops < MaxOps
    /\ \E request \in CollidingRequests :
         UpsertApplied(upsert_request(store, request, Precision, clock + 1),
                       request, clock + 1)
    /\ ops' = ops + 1
    /\ prior' = last

NextColliding == UpsertColliding \/ Canonicalize \/ Dedupe

SpecColliding == InitEmpty /\ [][NextColliding]_vars

\* ------------------------------------------------------------------ claims

\* the (location_key, bundle_slug, normalized selection) of a stored row
NormalizedSignature(row) ==
    <<row.location_key, row.bundle_slug, normalize_norad_ids(row.selected_norad_ids)>>

NoSharedSignature(rows) ==
    \A i, j \in DOMAIN rows :
        i # j => NormalizedSignature(rows[i]) # NormalizedSignature(rows[j])

\* the location_key a row has once the backfill has run
BackfilledRow(row) ==
    IF row.location_key = NullText \/ row.location_key = <<>>
    THEN [row EXCEPT !.location_key = location_key_for(row.lat, row.lon, Precision)]
    ELSE row

\* the candidate key and the signature of a request
CandidateKey(request) ==
    request_key_for(resolved_location_slug(request, Precision), request.bundle_slug,
                    request.selected_norad_ids)

RequestSignature(request) ==
    <<location_key_for(request.lat, request.lon, Precision), request.bundle_slug,
      normalize_norad_ids(request.selected_norad_ids)>>

\* the row matches the request by signature or by candidate key
MatchesRequest(row, request) ==
    \/ NormalizedSignature(BackfilledRow(row)) = RequestSignature(request)
    \/ row.request_key = CandidateKey(request)

RowsWithKey(rows, key) == {i \in DOMAIN rows : rows[i].request_key = key}

\* the last two operations were upsert(r), upsert(r)
RepeatedUpsert ==
    /\ last.op = "upsert"
    /\ prior.op = "upsert"
    /\ last.request = prior.request

C2_DedupeLeavesUniqueSignatures ==
    last.op = "dedupe" => NoSharedSignature(store)

\* dedupe ran on three rows of one signature whose location_key was still NULL
C2_Witness ==
    /\ last.op = "dedupe"
    /\ last.count >= 2
    /\ \E i \in DOMAIN last.before : last.before[i].location_key = NullText

\* the last two operations were canonicalize passes with the same arguments
RepeatedCanonicalize ==
    /\ last.op = "canonicalize"
    /\ prior.op = "canonicalize"
    /\ last.available = prior.available
    /\ last.cap = prior.cap

\* C3: a canonicalize pass run right after a canonicalize pass with the same
\* availability and cap returns 0 and leaves every record unchanged.
C3_CanonicalizeIdempotent ==
    RepeatedCanonicalize => last.count = 0 /\ store = last.before

\* the sorted, deduplicated availability of a row's bundle in the last pass
AvailableTo(row) ==
    normalize_norad_ids(IF row.bundle_slug \in DOMAIN last.available
                        THEN last.available[row.bundle_slug] ELSE <<>>)

\* the row's stored selection is the full available set of its bundle
FullySelected(row) ==
    AvailableTo(row) # <<>> /\ row.selected_norad_ids = AvailableTo(row)

\* a live record holds the key of the row's location and bundle without
\* selection, with an empty stored selection
CollapsedIn(rows, row) ==
    \E j \in DOMAIN rows :
        /\ rows[j].request_key = request_key_for(row.location_slug, row.bundle_slug, <<>>)
        /\ rows[j].selected_norad_ids = <<>>

Empty(value) == value = None \/ value = ""

\* the stored value `new` of an attribution column after an upsert that
\* matched a record holding `old`, the request supplying `given`
FirstWriterWins(old, given, new) ==
    /\ (Empty(old) /\ ~Empty(given)) => new = given
    /\ ~Empty(old) => new = old

\* the row the last upsert matched, before and after the call
MatchedBefore == last.before[CHOOSE i \in DOMAIN last.before :
                                last.before[i].request_key = last.ret.request_key]

MatchedAfter == store[CHOOSE i \in DOMAIN store :
                          store[i].request_key = last.ret.request_key]

\* C5: an upsert that matches a record (by signature or by key) fills each of
\* name, requested_by, requested_at when the stored value is empty and the
\* request supplies one, and changes no stored value that is non-empty.
C5_FirstWriterWins ==
    (last.op = "upsert" /\ last.path \in {"signature", "key"}) =>
        /\ FirstWriterWins(MatchedBefore.name, last.request.name, MatchedAfter.name)
        /\ FirstWriterWins(MatchedBefore.requested_by, last.request.requested_by,
                           MatchedAfter.requested_by)
        /\ FirstWriterWins(MatchedBefore.requested_at, last.request.requested_at,
                           MatchedAfter.requested_at)

\* C6: in every state reached from an empty store by upsert, canonicalize and
\* dedupe calls, no two live records share
\* (location_key, bundle_slug, normalized selection).
C6_SignaturesUniqueFromEmpty == NoSharedSignature(store)

\* the last two operations were upserts of one location_key, bundle and
\* normalized selection under different slugs
TwoSlugsOneSignature ==
    /\ last.op = "upsert"
    /\ prior.op = "upsert"
    /\ RequestSignature(last.request) = RequestSignature(prior.request)
    /\ resolved_location_slug(last.request, Precision)
           # resolved_location_slug(prior.request, Precision)

\* the second upsert added no row and returned the key the first returned
JoinedFirstRecord ==
    /\ last.path # "insert"
    /\ Len(store) = Len(last.before)
    /\ last.ret.request_key = prior.ret.request_key

C7_SecondSlugInserts ==
    /\ TwoSlugsOneSignature
    /\ prior.path = "key"
    /\ last.path = "insert"

\* the last operation was an upsert whose signature and candidate key matched
\* no record of the table it started from
UnmatchedUpsert ==
    /\ last.op = "upsert"
    /\ \A i \in DOMAIN last.before : ~MatchesRequest(last.before[i], last.request)

\* the row an unmatched upsert must add: the last row of the table
InsertedAsGiven ==
    /\ Len(store) = Len(last.before) + 1
    /\ store[Len(store)].request_key = CandidateKey(last.request)
    /\ store[Len(store)].first_seen = store[Len(store)].last_seen
    /\ store[Len(store)].name = last.request.name
    /\ store[Len(store)].requested_by = last.request.requested_by
    /\ store[Len(store)].requested_at = last.request.requested_at

\* C8 as stated: an upsert that matches no record inserts one record with
\* first_seen = last_seen and the incoming attribution, and leaves every
\* record stored before unchanged.
C8_InsertLeavesOthersUnchanged ==
    UnmatchedUpsert =>
        /\ InsertedAsGiven
        /\ \A i \in DOMAIN last.before : store[i] = last.before[i]

\* C8 amended: ... and leaves every record stored before unchanged, except
\* that a NULL or empty location_key is filled from the record's coordinates.
C8_InsertLeavesOthersBackfilled ==
    UnmatchedUpsert =>
        /\ InsertedAsGiven
        /\ \A i \in DOMAIN last.before : store[i] = BackfilledRow(last.before[i])

\* an unmatched upsert with attribution ran on a table with a legacy row
C8_Witness ==
    /\ UnmatchedUpsert
    /\ last.request.requested_at # None
    /\ \E i \in DOMAIN last.before : last.before[i].location_key = NullText

\* rows the last operation inserted, and rows stored before that it changed
InsertedCount == Len(store) - Len(last.before)

ChangedRows == {i \in DOMAIN last.before : store[i] # last.before[i]}

ChangedBeyondBackfill ==
    {i \in DOMAIN last.before : store[i] # BackfilledRow(last.before[i])}

\* C9 as stated: an upsert writes at most one row, by one insert or one
\* update, never both, and modifies no other record.
C9_UpsertWritesOneRow ==
    last.op = "upsert" =>
        /\ InsertedCount \in {0, 1}
        /\ InsertedCount + Cardinality(ChangedRows) <= 1

\* C9 amended: apart from filling a NULL or empty location_key of other rows,
\* an upsert writes at most one row, by one insert or one update, never both.
C9_UpsertWritesOneRowBesidesBackfill ==
    last.op = "upsert" =>
        /\ InsertedCount \in {0, 1}
        /\ InsertedCount + Cardinality(ChangedBeyondBackfill) <= 1

\* an upsert updated the record holding its key in a table with legacy rows
C9_Witness ==
    /\ last.op = "upsert"
    /\ last.path = "key"
    /\ Cardinality(ChangedRows) > 1
    /\ Cardinality(ChangedBeyondBackfill) = 1

\* C10: every upsert call commits exactly once.
C10_UpsertCommitsOnce ==
    last.op = "upsert" => Len(last.commits) = 1

\* ------------------------------------------------- canonicalize, record by record

IdsWithin(selected, available) ==
    \A k \in DOMAIN selected : \E a \in DOMAIN available : available[a] = selected[k]

\* a live record still holds the row's key with the row's stored selection
KeptIn(rows, row) ==
    \E j \in DOMAIN rows :
        /\ rows[j].request_key = row.request_key
        /\ rows[j].selected_norad_ids = row.selected_norad_ids

\* the record the row became: same location and bundle, seen at least as long,
\* a selection within the availability, under the key of that selection
RewrittenWithin(rows, row, available) ==
    \E j \in DOMAIN rows :
        /\ rows[j].location_slug = row.location_slug
        /\ rows[j].bundle_slug = row.bundle_slug
        /\ rows[j].first_seen <= row.first_seen
        /\ rows[j].last_seen >= row.last_seen
        /\ IdsWithin(rows[j].selected_norad_ids, available)
        /\ rows[j].request_key =
               request_key_for(row.location_slug, row.bundle_slug,
                               rows[j].selected_norad_ids)

\* the record of the row's location and bundle that selects `selected`, under
\* the key of that selection
HeldUnder(rows, row, selected) ==
    \E j \in DOMAIN rows :
        /\ rows[j].location_slug = row.location_slug
        /\ rows[j].bundle_slug = row.bundle_slug
        /\ rows[j].selected_norad_ids = selected
        /\ rows[j].request_key =
               request_key_for(row.location_slug, row.bundle_slug, selected)

\* C11: after a canonicalize pass, a record of a bundle with available ids
\* either kept its key and selection or is a record whose selection lies
\* within the availability, under request_key(location_slug, bundle_slug,
\* new selection); a record that selected [1,4] with availability [1,2,3] and
\* cap 2 is one that selects [1] under the key for [1].
C11_RewrittenSelectionIsAvailable ==
    last.op = "canonicalize" =>
        \A i \in DOMAIN last.before :
            AvailableTo(last.before[i]) # <<>> =>
                /\ \/ KeptIn(store, last.before[i])
                   \/ RewrittenWithin(store, last.before[i], AvailableTo(last.before[i]))
                /\ (/\ last.before[i].selected_norad_ids = <<1, 4>>
                    /\ AvailableTo(last.before[i]) = <<1, 2, 3>>
                    /\ last.cap = 2)
                       => HeldUnder(store, last.before[i], <<1>>)

\* a pass with availability [1,2,3] met a record that selected [1,4] and no
\* record holds its old key any more
C11_Witness ==
    /\ last.op = "canonicalize"
    /\ \E i \in DOMAIN last.before :
           /\ last.before[i].selected_norad_ids = <<1, 4>>
           /\ AvailableTo(last.before[i]) = <<1, 2, 3>>
           /\ ~KeptIn(store, last.before[i])
           /\ HeldUnder(store, last.before[i], <<1>>)

Ascending(selected) ==
    \A k \in DOMAIN selected : k > 1 => selected[k - 1] < selected[k]

EmptyStored == {k \in DOMAIN last.steps : last.steps[k].record.selected_norad_ids = <<>>}

\* the first cap ids of the sorted, deduplicated availability of the record's bundle
FirstAvailable(record) == Take(AvailableTo(record), last.cap)

\* the pass rewrote the record to the first cap available ids and counted it
RewrittenToDefault(step) ==
    /\ step.branch \in {"rename", "merge"}
    /\ last.count >= 1
    /\ HeldUnder(store, step.record, FirstAvailable(step.record))

\* the row is in the table exactly as it was before the pass
Untouched(key) ==
    \E j \in DOMAIN store : store[j] = RowByKey(last.before, key)

\* C13 as stated: a record stored with an empty selection is rewritten to the
\* first cap available ids, under their key, and counted, when its bundle has
\* more available ids than the cap; otherwise it stays empty and untouched.
C13_EmptySelectionTakesDefault ==
    last.op = "canonicalize" =>
        \A k \in EmptyStored :
            IF Len(AvailableTo(last.steps[k].record)) > last.cap
            THEN RewrittenToDefault(last.steps[k])
            ELSE Untouched(last.steps[k].record.request_key)

\* C13 amended: ... otherwise the pass does not rewrite the record, which
\* stays under its key with an empty selection (another record merged onto
\* its key may still change its attribution and seen times).
C13_EmptySelectionTakesDefaultOrStays ==
    last.op = "canonicalize" =>
        \A k \in EmptyStored :
            IF Len(AvailableTo(last.steps[k].record)) > last.cap
            THEN RewrittenToDefault(last.steps[k])
            ELSE /\ last.steps[k].branch = "same selection"
                 /\ KeptIn(store, last.steps[k].record)

\* one pass met an empty record of a bundle with three available ids under
\* cap 2, and an empty record of a bundle within the cap
C13_Witness ==
    /\ last.op = "canonicalize"
    /\ \E k \in EmptyStored :
           /\ AvailableTo(last.steps[k].record) = <<1, 2, 3>>
           /\ last.cap = 2
           /\ HeldUnder(store, last.steps[k].record, <<1, 2>>)
    /\ \E k \in EmptyStored :
           /\ Len(AvailableTo(last.steps[k].record)) <= last.cap
           /\ Untouched(last.steps[k].record.request_key)

\* the records the last pass renamed, and those it merged into another and deleted
RenamedSteps == {k \in DOMAIN last.steps : last.steps[k].branch = "rename"}

MergedSteps == {k \in DOMAIN last.steps : last.steps[k].branch = "merge"}

\* C14: canonicalize returns the number of records it renamed plus the number
\* it merged away (each of which left the table one row shorter), and it
\* returns 0 exactly when the table after the pass is the table before it.
C14_CountsRenamedAndMerged ==
    last.op = "canonicalize" =>
        /\ last.count = Cardinality(RenamedSteps) + Cardinality(MergedSteps)
        /\ Len(last.before) - Len(store) = Cardinality(MergedSteps)
        /\ (last.count = 0) <=> (store = last.before)

\* one pass renamed a record and merged another away, and returned 2
C14_Witness ==
    /\ last.op = "canonicalize"
    /\ RenamedSteps # {}
    /\ MergedSteps # {}
    /\ last.count = 2

\* request_key is unique among the rows
KeysUnique(rows) ==
    \A i, j \in DOMAIN rows : rows[i].request_key = rows[j].request_key => i = j

\* a live record of the record's location and bundle covers the time the
\* record was seen: the survivor of its merge
MergedInto(rows, record) ==
    \E j \in DOMAIN rows :
        /\ rows[j].location_slug = record.location_slug
        /\ rows[j].bundle_slug = record.bundle_slug
        /\ rows[j].request_key # record.request_key
        /\ rows[j].first_seen <= record.first_seen
        /\ rows[j].last_seen >= record.last_seen

\* C15: no canonicalize or dedupe call raises on a conflict between records:
\* no statement of a pass meets the primary key, request_key stays unique,
\* every record whose new key was held took the merge branch, survives in the
\* holder and left the table one row shorter, and dedupe removes one row per
\* duplicate it counts.
C15_ConflictsMergeWithoutError ==
    /\ KeysUnique(store)
    /\ last.op = "canonicalize" =>
           /\ ~last.failed
           /\ \A k \in DOMAIN last.steps : last.steps[k].branch # IntegrityError
           /\ \A k \in MergedSteps : MergedInto(store, last.steps[k].record)
           /\ Len(store) = Len(last.before) - Cardinality(MergedSteps)
    /\ last.op = "dedupe" =>
           /\ ~last.failed
           /\ Len(store) = Len(last.before) - last.count

\* a pass moved a record onto a key another live record held, and merged
C15_Witness ==
    /\ last.op = "canonicalize"
    /\ MergedSteps # {}
    /\ ~last.failed
    /\ \E k \in MergedSteps : ~HasKey(store, last.steps[k].record.request_key)

\* ------------------------------------------------------------ legacy importer

\* the first value of the sequence that is neither NULL nor the empty text
RECURSIVE FirstSupplied(_)
FirstSupplied(values) ==
    IF values = <<>> THEN None
    ELSE IF ~Empty(Head(values)) THEN Head(values)
    ELSE FirstSupplied(Tail(values))

\* what the definitions that resolved to the record under `key` supplied for
\* an attribution column, in import order
RECURSIVE SuppliedFor(_, _, _)
SuppliedFor(results, key, column) ==
    IF results = <<>> THEN <<>>
    ELSE IF Head(results).ret.request_key = key
    THEN <<Head(results).request[column]>> \o SuppliedFor(Tail(results), key, column)
    ELSE SuppliedFor(Tail(results), key, column)

\* the column of the record was empty, or the record did not exist, before the import
EmptyBefore(key, column) ==
    \A i \in DOMAIN last.before :
        last.before[i].request_key = key => Empty(last.before[i][column])

\* the import applied upsert once per definition, in the order of the files
AppliedInOrder ==
    /\ [k \in DOMAIN last.results |-> last.results[k].request]
           = LoadedRequests(last.files, Precision)
    /\ \A k \in DOMAIN last.results :
           k > 1 => last.results[k - 1].ret.last_seen < last.results[k].ret.last_seen

\* definitions of one signature resolved to one record
OneRecordPerSignature ==
    \A i, j \in DOMAIN last.results :
        RequestSignature(last.results[i].request) = RequestSignature(last.results[j].request)
            => last.results[i].ret.request_key = last.results[j].ret.request_key

\* the stored value is the one supplied, or still empty when none was supplied
StoredAsSupplied(stored, supplied) ==
    IF supplied = None THEN Empty(stored) ELSE stored = supplied

\* a column that was empty holds what the first definition to supply it gave
AttributionFromFirst ==
    \A k \in DOMAIN last.results :
        \A column \in {"name", "requested_by", "requested_at"} :
            EmptyBefore(last.results[k].ret.request_key, column) =>
                StoredAsSupplied(
                    RowByKey(store, last.results[k].ret.request_key)[column],
                    FirstSupplied(SuppliedFor(last.results, last.results[k].ret.request_key,
                                              column)))

\* C16: an import that ends without error has applied upsert once per
\* definition in ascending file order, definitions of the same logical request
\* (one signature) resolved to one record, and each attribution column of a
\* record that was empty holds the value of the first definition, in that
\* order, that supplies one.
C16_ImportInOrderFirstAttributionWins ==
    (last.op = "migrate" /\ ~last.failed) =>
        /\ AppliedInOrder
        /\ OneRecordPerSignature
        /\ AttributionFromFirst

\* the position of the first file of the last import that load_requests rejects
FirstRejected ==
    CHOOSE i \in DOMAIN last.files :
        /\ Rejected(last.files[i], KnownBundles)
        /\ \A j \in 1..(i - 1) : ~Rejected(last.files[j], KnownBundles)

\* the table holds a record matching the request, seen later than anything
\* the table held before the import
UpsertedByImport(request) ==
    \E j \in DOMAIN store :
        /\ MatchesRequest(store[j], request)
        /\ \A i \in DOMAIN last.before : store[j].last_seen > last.before[i].last_seen

\* C17: an import that meets a malformed definition propagates the error, has
\* upserted the definitions before it in file order, which are in the table,
\* and has upserted none after it.
C17_ImportKeepsDefinitionsBeforeError ==
    (last.op = "migrate" /\ \E i \in DOMAIN last.files : Rejected(last.files[i], KnownBundles))
        => /\ last.failed
           /\ [k \in DOMAIN last.results |-> last.results[k].request]
                  = LoadedRequests(SubSeq(last.files, 1, FirstRejected - 1), Precision)
           /\ \A i \in 1..(FirstRejected - 1) :
                  ~last.files[i].empty => UpsertedByImport(last.files[i].request)

\* ---- C18

\* the last operation was a run that opens the database itself
OpenedByRun == last.op \in {"persist", "ensure"} /\ last.path # "rejected"

\* C18: whenever a run that opens the database connection has returned or
\* raised, whether it succeeded, failed inside its body or failed while the
\* database was being opened and initialised, no connection it made is still
\* open
C18_ConnectionClosedOnEveryPath == OpenedByRun => last.connection # Open

\* the runs whose opening returned close the connection, on success and when
\* the body raises
ClosedOnceOpened ==
    (OpenedByRun /\ last.opening = Returns) => last.connection = Closed

\* a run whose connect raised never made a connection
NoneWhenConnectRaises ==
    (OpenedByRun /\ last.opening = ConnectRaises) => last.connection = NoConnection

\* a run whose initialisation raised after connect
InitialiseRaised == OpenedByRun /\ last.opening = ExecuteRaises

\* ---- C19

\* the texts a record is listed by
ListedBy(record) == <<record.location_slug, record.bundle_slug, record.request_key>>

\* lexicographic order of two such triples, text by text
TripleBefore(s, t) ==
    \E i \in 1..3 :
        /\ \A j \in 1..(i - 1) : s[j] = t[j]
        /\ StrLess(s[i], t[i])

\* the listing holds every row of the table exactly once
ListsEachOnce(listed, rows) ==
    /\ Len(listed) = Len(rows)
    /\ \A i \in DOMAIN rows :
         Cardinality({k \in DOMAIN listed : listed[k] = RowToRecord(rows[i])}) = 1

ListedAscending(listed) ==
    \A j \in DOMAIN listed : \A k \in DOMAIN listed :
        j < k => TripleBefore(ListedBy(listed[j]), ListedBy(listed[k]))

\* C19: list_requests returns every stored record exactly once, in ascending
\* lexicographic order of (location_slug, bundle_slug, request_key)
C19_ListedOnceInOrder ==
    /\ ListsEachOnce(list_requests(store), store)
    /\ ListedAscending(list_requests(store))

\* a table of three or more rows that is listed in another order than it was
\* written, with two records of one location and bundle told apart by the
\* key and two records of one location told apart by the bundle
C19_Witness ==
    /\ Len(store) >= 3
    /\ list_requests(store) # RecordsOf(store)
    /\ \E i \in DOMAIN store : \E j \in DOMAIN store :
         /\ store[i].location_slug = store[j].location_slug
         /\ store[i].bundle_slug = store[j].bundle_slug
         /\ i # j
    /\ \E i \in DOMAIN store : \E j \in DOMAIN store :
         /\ store[i].location_slug = store[j].location_slug
         /\ store[i].bundle_slug # store[j].bundle_slug

\* ---- C20

\* the number of rows stored under a key
StoredUnder(rows, key) == Cardinality({i \in DOMAIN rows : rows[i].request_key = key})

\* C20: right after an upsert has returned a record, on the signature, the key
\* or the insert path, the table holds a row with that record's request_key,
\* so that get_request_by_key finds it
C20_ReturnedRecordIsStored ==
    last.op = "upsert" =>
        /\ last.path \in {"signature", "key", "insert"}
        /\ HasKey(store, last.ret.request_key)
        /\ get_request_by_key(store, last.ret.request_key).request_key
               = last.ret.request_key

\* a row inserted by an upsert was then found by its key and then by its
\* signature, the last time by a request whose own key is another one
C20_Witness ==
    /\ last.op = "upsert" /\ last.path = "signature"
    /\ prior.op = "upsert" /\ prior.path = "key"
    /\ prior.ret.request_key = last.ret.request_key
    /\ CandidateKey(last.request) # last.ret.request_key
    /\ \E i \in DOMAIN store :
         /\ store[i].request_key = last.ret.request_key
         /\ store[i].first_seen > OpenedAt
    /\ StoredUnder(store, last.ret.request_key) = 1

\* an intake run whose opening returned exits with 0: its re-read finds the
\* record
PersistFindsRecord ==
    (last.op = "persist" /\ ~last.failed /\ last.path # "rejected") =>
        last.exit = 0 /\ HasKey(store, last.ret.request_key)

\* ---- C21

SameIds(a, b) == {a[i] : i \in DOMAIN a} = {b[i] : i \in DOMAIN b}

\* "e13d8f06", the fingerprint of the ids 1 and 2
FingerprintOneTwo == <<101, 49, 51, 100, 56, 102, 48, 54>>

\* the key of a call is the slug, "--" and the bundle, followed for a
\* non-empty selection by "--sel-" and the fingerprint of its sorted ids
KeyAsSpecified(request, key) ==
    IF request.selected_norad_ids = <<>>
    THEN key = request.slug \o Sep \o request.bundle_slug
    ELSE key = request.slug \o Sep \o request.bundle_slug \o SelSep
                   \o selection_hash(SortedSeq({request.selected_norad_ids[i] :
                                                  i \in DOMAIN request.selected_norad_ids}))

\* every other listing of the same ids gives the same key, from
\* request_key_for and from compute_request_feed_slug called on the listing
KeyOfAnyListing(request, key) ==
    \A ids \in KeySelections :
        SameIds(ids, request.selected_norad_ids)
            => /\ request_key_for(request.slug, request.bundle_slug, ids) = key
               /\ compute_request_feed_slug(request.slug, request.bundle_slug, ids) = key

\* two calls in a row on equal slug, bundle and ids
SameKeyInputs(a, b) ==
    /\ a.slug = b.slug
    /\ a.bundle_slug = b.bundle_slug
    /\ SameIds(a.selected_norad_ids, b.selected_norad_ids)

\* C21: the request key is a function of the location slug, the bundle slug
\* and the set of selected ids alone: it is slug--bundle for an empty
\* selection and slug--bundle--sel-<fingerprint of the sorted ids> otherwise,
\* the same for every order and repetition of the ids and for every table
C21_KeyFromSlugBundleSelection ==
    /\ last.op = "key" =>
           /\ KeyAsSpecified(last.request, last.key)
           /\ KeyOfAnyListing(last.request, last.key)
           /\ (prior.op = "key" /\ SameKeyInputs(prior.request, last.request))
                  => prior.key = last.key
    /\ request_key_for(Home, Iss, <<2, 1>>) = Home \o Sep \o Iss \o SelSep \o FingerprintOneTwo

\* the same ids listed in two ways, once with a repetition, gave one key
C21_Witness ==
    /\ last.op = "key" /\ prior.op = "key"
    /\ SameKeyInputs(prior.request, last.request)
    /\ prior.request.selected_norad_ids # last.request.selected_norad_ids
    /\ Len(last.request.selected_norad_ids) = 3
    /\ last.key = prior.key
    /\ Len(last.key) > Len(last.request.slug \o Sep \o last.request.bundle_slug)

\* ---- C22

\* on an empty table, an upsert without a selection and then an upsert of the
\* same place and bundle that selects one satellite
UnselectedThenSelected ==
    /\ prior.op = "upsert" /\ last.op = "upsert"
    /\ prior.before = <<>>
    /\ prior.request.selected_norad_ids = <<>>
    /\ Len(last.request.selected_norad_ids) = 1
    /\ last.request = [prior.request EXCEPT
                           !.selected_norad_ids = last.request.selected_norad_ids]

\* the rows stored for the place and bundle of a request
RowsOfPlace(rows, request) ==
    {i \in DOMAIN rows :
        /\ rows[i].location_key = location_key_for(request.lat, request.lon, Precision)
        /\ rows[i].bundle_slug = request.bundle_slug}

\* C22 as stated: the second upsert finds the record of the first by its
\* signature, and one record with the empty selection is left
C22_SelectedJoinsUnselected ==
    UnselectedThenSelected =>
        /\ last.path = "signature"
        /\ Cardinality(RowsOfPlace(store, last.request)) = 1
        /\ \A i \in RowsOfPlace(store, last.request) : store[i].selected_norad_ids = <<>>

\* C22: the selection is part of the signature, so the second upsert matches
\* neither the signature nor the key of the first record and inserts a second
\* record; the place and bundle end with two records, the first with the
\* empty selection under slug--bundle, the second with the selected id under
\* slug--bundle--sel-<fingerprint>
C22_SelectedInsertedBesideUnselected ==
    UnselectedThenSelected =>
        /\ last.path = "insert"
        /\ Cardinality(RowsOfPlace(store, last.request)) = 2
        /\ store[1].request_key = prior.ret.request_key
        /\ store[1].selected_norad_ids = <<>>
        /\ store[2].request_key = last.ret.request_key
        /\ store[2].selected_norad_ids = last.request.selected_norad_ids
        /\ store[2].request_key
               = store[1].request_key \o SelSep
                     \o selection_hash(last.request.selected_norad_ids)

C22_Witness ==
    /\ UnselectedThenSelected
    /\ Len(store) = 2
    /\ last.request.slug = NullText

\* ---- C23

\* C23: in every state reached by upserts, canonicalize and dedupe passes
\* under a clock that never runs backwards, every stored record has
\* first_seen <= last_seen
C23_FirstSeenNotAfterLastSeen ==
    \A i \in DOMAIN store : store[i].first_seen <= store[i].last_seen

\* the same of the timestamps as the table holds them, as texts
FirstSeenTextNotAfterLastSeen ==
    \A i \in DOMAIN store :
        ~StrLess(StampText(store[i].last_seen), StampText(store[i].first_seen))

\* no timestamp of the table was read on a whole second
NoWholeSecondStored ==
    \A i \in DOMAIN store :
        StampFraction(store[i].first_seen) # 0 /\ StampFraction(store[i].last_seen) # 0

\* ---- C24

StrictlyAscending(ids) == \A j \in 1..(Len(ids) - 1) : ids[j] < ids[j + 1]

\* C24: in every state reached from the empty table by upserts, canonicalize
\* and dedupe passes, the stored selection of every record is strictly
\* ascending: sorted and without a repeated id
C24_StoredSelectionsAscending ==
    \A i \in DOMAIN store : StrictlyAscending(store[i].selected_norad_ids)

\* records stored from a request that listed its ids out of order and from
\* one that listed an id twice, one of them rewritten by a canonicalize pass
C24_Witness ==
    /\ last.op = "canonicalize" /\ last.count > 0
    /\ \E i \in DOMAIN store : Len(store[i].selected_norad_ids) >= 2
    /\ prior.op = "upsert"
    /\ ~StrictlyAscending(prior.request.selected_norad_ids)
    /\ Len(prior.request.selected_norad_ids) = 3
    /\ \E i \in DOMAIN prior.before : Len(prior.before[i].selected_norad_ids) = 2

\* ---- C25

AllKeyed(rows) == \A i \in DOMAIN rows : ~NeedsLocationKey(rows[i])

\* the table the signature lookup of the last upsert, or the signature
\* comparison of the last dedupe, ran on: the table the backfill committed,
\* or the table as it was when no row lacked a location_key
LookedUpIn ==
    IF \E i \in DOMAIN last.before : NeedsLocationKey(last.before[i])
    THEN last.commits[1]
    ELSE last.before

\* C25: when the signature lookup of an upsert or the signature comparison of
\* a dedupe pass runs, no stored record lacks a location_key, and none lacks
\* one when the call has returned
C25_BackfillPrecedesLookup ==
    last.op \in {"upsert", "dedupe"} =>
        /\ Len(last.commits) >= 1 \/ AllKeyed(last.before)
        /\ AllKeyed(LookedUpIn)
        /\ AllKeyed(store)

\* an upsert on a table of an earlier version matched, by signature, a row
\* that had no location_key when the call began
C25_Witness ==
    /\ last.op = "upsert" /\ last.path = "signature"
    /\ \E i \in DOMAIN last.before :
         /\ last.before[i].location_key = NullText
         /\ last.before[i].request_key = last.ret.request_key
    /\ Len(last.commits) = 2
    /\ AllKeyed(store)

\* a dedupe pass on such a table merged records whose signatures were equal
\* only once the backfill had run
DedupeMergedAfterBackfill ==
    /\ last.op = "dedupe" /\ last.count > 0
    /\ \E i \in DOMAIN last.before : last.before[i].location_key = NullText

\* ---- C26

\* every key of the table before the call is a key of the table after it
AllKeysKept == \A i \in DOMAIN last.before : HasKey(store, last.before[i].request_key)

\* the rows of the table before the call whose key is gone after it
GoneRows == {i \in DOMAIN last.before : ~HasKey(store, last.before[i].request_key)}

\* a stored record with the signature of a row, under another key
SameSignatureLives(rows, row) ==
    \E j \in DOMAIN rows :
        /\ rows[j].request_key # row.request_key
        /\ SignatureOf(rows[j]) = SignatureOf(BackfilledRow(row))

\* the key canonicalize_requests rewrote a record to
RewrittenKey(record) ==
    request_key_for(record.location_slug, record.bundle_slug,
                    CanonicalSelected(record.selected_norad_ids,
                                      AvailableFor(last.available, record.bundle_slug),
                                      last.cap))

\* C26: an upsert deletes no record; every record a dedupe pass deletes leaves
\* a stored record of its signature; every record a canonicalize pass deletes
\* leaves the record stored under the key it was rewritten to, and the pass
\* deletes no other record
C26_DestroyedOnlyByMerging ==
    /\ last.op = "upsert" => AllKeysKept /\ Len(store) >= Len(last.before)
    /\ last.op = "dedupe" =>
           /\ \A i \in GoneRows : SameSignatureLives(store, last.before[i])
           /\ Cardinality(GoneRows) = last.count
           /\ Len(store) = Len(last.before) - last.count
    /\ last.op = "canonicalize" =>
           /\ \A k \in MergedSteps :
                  /\ RewrittenKey(last.steps[k].record) # last.steps[k].record.request_key
                  /\ HasKey(store, RewrittenKey(last.steps[k].record))
           /\ Len(store) = Len(last.before) - Cardinality(MergedSteps)

\* a canonicalize pass that merged a record away, after a dedupe pass that
\* deleted one and an upsert before
C26_Witness ==
    /\ last.op = "canonicalize" /\ MergedSteps # {}
    /\ Len(store) < Len(last.before)
    /\ prior.op = "dedupe" /\ prior.count > 0

\* ---- C27

\* the round is over: the last call is the second pass, the call before it
\* the second upsert
RoundDone == ops = 4 /\ last.op = "canonicalize" /\ prior.op = "upsert"

\* the first upsert of a round reads the clock once after the table is opened
FirstUpsertAt == OpenedAt + 1

\* C27: on an empty table, upsert(r), canonicalize, upsert(r), canonicalize
\* with one availability and cap end with exactly one record for the place
\* and bundle of r, and that record has the first_seen of the first upsert
C27_RoundEndsWithOneRecord ==
    RoundDone =>
        /\ Cardinality(RowsOfPlace(store, prior.request)) = 1
        /\ \A i \in RowsOfPlace(store, prior.request) : store[i].first_seen = FirstUpsertAt

\* the round ends with one record whenever the first pass left the selection
\* of r's record as r gave it, or the second pass merged the two records
RoundEndsWithOneRecordOrTwo ==
    RoundDone =>
        /\ Cardinality(RowsOfPlace(store, prior.request)) \in {1, 2}
        /\ \E i \in RowsOfPlace(store, prior.request) : store[i].first_seen = FirstUpsertAt
        /\ (prior.path # "insert" \/ MergedSteps # {})
               => Cardinality(RowsOfPlace(store, prior.request)) = 1

\* ---- C28

\* the last intake run was given a request of one of the four rejected kinds
RejectedIntake ==
    /\ last.op = "persist"
    /\ \/ last.request.selected_norad_ids = NotAList
       \/ last.request.bundle_slug \notin KnownBundles
       \/ last.request.slug # NullText /\ ~is_slug(last.request.slug)
       \/ last.request.bundle_slug \in PlanetaryBundles
              /\ last.request.selected_norad_ids # <<>>

\* the last intake run was given a planetary bundle without selected ids and
\* a database that opens
PlanetaryIntake ==
    /\ last.op = "persist"
    /\ last.opening = Returns
    /\ last.request.bundle_slug \in PlanetaryBundles
    /\ last.request.selected_norad_ids = <<>>
    /\ last.request.slug # NullText => is_slug(last.request.slug)

\* C28: an intake run on a request with an unknown bundle, an invalid slug
\* override, a selection that is no list or a planetary bundle with selected
\* ids fails and leaves the table as it was, without opening the database; a
\* planetary bundle with an empty selection is stored with an empty selection
C28_RejectedIntakeWritesNothing ==
    /\ RejectedIntake =>
           /\ last.exit = 1
           /\ store = last.before
           /\ last.connection = NoConnection
    /\ PlanetaryIntake =>
           /\ last.exit = 0
           /\ get_request_by_key(store, last.ret.request_key).selected_norad_ids = <<>>
           /\ get_request_by_key(store, last.ret.request_key).bundle_slug
                  = last.request.bundle_slug

\* a run rejected for a planetary bundle with a selected id, after a run that
\* stored a request for the same bundle without one
C28_Witness ==
    /\ RejectedIntake
    /\ last.request.bundle_slug \in PlanetaryBundles
    /\ last.before # <<>>
    /\ prior.op = "persist" /\ prior.path = "insert" /\ prior.exit = 0
    /\ prior.request.bundle_slug \in PlanetaryBundles
    /\ \E i \in DOMAIN store :
         store[i].bundle_slug \in PlanetaryBundles /\ store[i].selected_norad_ids = <<>>

\* ---- C29

\* the rows of the table before a canonicalize pass whose bundle has no entry
\* in the availability map of the pass
AbsentRows == {i \in DOMAIN last.before : last.before[i].bundle_slug \notin DOMAIN last.available}

\* the row is stored as it was before the pass
StoredUnchanged(row) == \E j \in DOMAIN store : store[j] = row

\* the steps of the pass that merged a record into the record under the key
StepsMergedOnto(key) == {k \in MergedSteps : RewrittenKey(last.steps[k].record) = key}

AbsentHolderMerged ==
    /\ last.op = "canonicalize" /\ ~last.failed
    /\ \E i \in AbsentRows :
         /\ StepsMergedOnto(last.before[i].request_key) # {}
         /\ ~StoredUnchanged(last.before[i])

\* ---- C30

\* the keys some record was merged onto in the last canonicalize pass
HolderKeys == {RewrittenKey(last.steps[k].record) : k \in MergedSteps}

\* the steps of the pass that renamed a record to the key
StepsRenamedOnto(key) ==
    {k \in DOMAIN last.steps :
        last.steps[k].branch = "rename" /\ RewrittenKey(last.steps[k].record) = key}

\* the record that held the key when a record was merged onto it: the record
\* the pass renamed to the key, else the record stored under it before the pass
HolderOf(key) ==
    IF StepsRenamedOnto(key) # {}
    THEN last.steps[CHOOSE k \in StepsRenamedOnto(key) : TRUE].record
    ELSE get_request_by_key(last.before, key)

\* the selection the holder of the key is stored with when it is merged onto
HolderSelection(key) ==
    IF StepsRenamedOnto(key) # {}
    THEN CanonicalSelected(HolderOf(key).selected_norad_ids,
                           AvailableFor(last.available, HolderOf(key).bundle_slug), last.cap)
    ELSE HolderOf(key).selected_norad_ids

\* the holder's value when it is not empty, else that of the first record
\* merged onto the key, in the order of the pass, that has one
RECURSIVE FirstGiven(_, _, _, _)
FirstGiven(value, key, field, k) ==
    IF k > Len(last.steps) THEN value
    ELSE IF k \in StepsMergedOnto(key)
    THEN FirstGiven(PyOr(value, last.steps[k].record[field]), key, field, k + 1)
    ELSE FirstGiven(value, key, field, k + 1)

\* the first_seen of the holder and of the records merged onto the key
FirstSeenOnto(key) ==
    {HolderOf(key).first_seen} \cup {last.steps[k].record.first_seen : k \in StepsMergedOnto(key)}

\* the last_seen of the holder and of the records merged onto the key
LastSeenOnto(key) ==
    {HolderOf(key).last_seen} \cup {last.steps[k].record.last_seen : k \in StepsMergedOnto(key)}

\* every record the pass merged is deleted: its key is gone unless the pass
\* renamed another record to it
MergedAreDeleted ==
    /\ Len(store) = Len(last.before) - Cardinality(MergedSteps)
    /\ \A k \in MergedSteps :
           \/ ~HasKey(store, last.steps[k].record.request_key)
           \/ StepsRenamedOnto(last.steps[k].record.request_key) # {}

\* the holder of every key merged onto ends the pass under that key with the
\* selection it had
HoldersKept ==
    \A key \in HolderKeys :
        /\ HasKey(store, key)
        /\ RowByKey(store, key).selected_norad_ids = HolderSelection(key)
        /\ RowByKey(store, key).location_slug = HolderOf(key).location_slug
        /\ RowByKey(store, key).bundle_slug = HolderOf(key).bundle_slug

\* the holder ends the pass with its own name, requester and request time
\* where it has one, else the merged record's
HoldersAttributed ==
    \A key \in HolderKeys :
        /\ HasKey(store, key)
        /\ RowByKey(store, key).name = FirstGiven(HolderOf(key).name, key, "name", 1)
        /\ RowByKey(store, key).requested_by
               = FirstGiven(HolderOf(key).requested_by, key, "requested_by", 1)
        /\ RowByKey(store, key).requested_at
               = FirstGiven(HolderOf(key).requested_at, key, "requested_at", 1)

\* the holder ends the pass with the earliest first_seen and the latest
\* last_seen of itself and the records merged onto it
HoldersSpan ==
    \A key \in HolderKeys :
        /\ HasKey(store, key)
        /\ RowByKey(store, key).first_seen \in FirstSeenOnto(key)
        /\ \A t \in FirstSeenOnto(key) : RowByKey(store, key).first_seen <= t
        /\ RowByKey(store, key).last_seen \in LastSeenOnto(key)
        /\ \A t \in LastSeenOnto(key) : RowByKey(store, key).last_seen >= t

\* C30: after a canonicalize pass every record rewritten onto a key another
\* record held is deleted, and the holder is stored under its key with its
\* selection, the earliest first_seen and the latest last_seen of itself and
\* the records merged into it, and for name, requester and request time its
\* own value when it has one, else the merged record's
C30_HolderAbsorbsRewritten ==
    (last.op = "canonicalize" /\ ~last.failed) =>
        MergedAreDeleted /\ HoldersKept /\ HoldersAttributed /\ HoldersSpan

\* after a canonicalize pass every record rewritten onto a key another record
\* held is deleted, and the holder is stored under its key with its selection
\* and, for name, requester and request time, its own value when it has one,
\* else the merged record's
HolderAbsorbsButSpan ==
    (last.op = "canonicalize" /\ ~last.failed) =>
        MergedAreDeleted /\ HoldersKept /\ HoldersAttributed

\* a pass that merged two records onto one key, the holder taking a name it
\* did not have
TwoMergedOntoOne ==
    /\ last.op = "canonicalize" /\ ~last.failed
    /\ \E key \in HolderKeys :
         /\ Cardinality(StepsMergedOnto(key)) >= 2
         /\ ~Truthy(HolderOf(key).name)
         /\ Truthy(RowByKey(store, key).name)

\* a pass that merged a record onto a key it had renamed another record to
MergedOntoRenamed ==
    /\ last.op = "canonicalize" /\ ~last.failed
    /\ \E key \in HolderKeys : StepsRenamedOnto(key) # {}

\* ---- C31

\* the steps of the last canonicalize pass that computed another selection
\* for a record and the key the record has
SameKeySteps == {k \in DOMAIN last.steps : last.steps[k].branch = "same key"}

\* the selection the pass computed for the record of a step
SelectedAt(k) ==
    CanonicalSelected(last.steps[k].record.selected_norad_ids,
                      AvailableFor(last.available, last.steps[k].record.bundle_slug),
                      last.cap)

\* C31: when a canonicalize pass computes for a record a selection other than
\* the stored one whose key is the key the record has, the record is stored
\* after the pass under that key with the computed selection
C31_SelectionRewrittenInPlace ==
    (last.op = "canonicalize" /\ ~last.failed) =>
        \A k \in SameKeySteps :
            /\ HasKey(store, last.steps[k].record.request_key)
            /\ RowByKey(store, last.steps[k].record.request_key).selected_norad_ids
                   = SelectedAt(k)

\* such a record is stored after the pass as it was before, and the pass does
\* not count it
SameKeyLeftAsStored ==
    (last.op = "canonicalize" /\ ~last.failed) =>
        \A k \in SameKeySteps :
            /\ SelectedAt(k) # last.steps[k].record.selected_norad_ids
            /\ \E i \in DOMAIN last.before :
                   /\ last.before[i].request_key = last.steps[k].record.request_key
                   /\ StoredUnchanged(last.before[i])
            /\ last.count = Cardinality({j \in DOMAIN last.steps :
                                            last.steps[j].branch \in {"merge", "rename"}})

\* a pass met a record whose computed selection has the fingerprint of the
\* stored one
SameKeyMet == last.op = "canonicalize" /\ ~last.failed /\ SameKeySteps # {}

\* ---- C32

\* the rows of the table before the call that have the signature of the row
\* once location_key is filled
GroupOf(row) ==
    {j \in DOMAIN last.before :
        SignatureOf(BackfilledRow(last.before[j])) = SignatureOf(BackfilledRow(row))}

\* the row is stored after the call under its key with its place and selection
KeptInPlace(row) ==
    /\ HasKey(store, row.request_key)
    /\ RowByKey(store, row.request_key).location_slug = row.location_slug
    /\ RowByKey(store, row.request_key).location_key = BackfilledRow(row).location_key
    /\ RowByKey(store, row.request_key).lat = row.lat
    /\ RowByKey(store, row.request_key).lon = row.lon
    /\ RowByKey(store, row.request_key).bundle_slug = row.bundle_slug
    /\ RowByKey(store, row.request_key).selected_norad_ids = row.selected_norad_ids

\* the rows of the table before the call that are stored after it
KeptOf(group) == {j \in group : HasKey(store, last.before[j].request_key)}

\* dedupe keeps one record of every signature, none of the signature first
\* seen earlier, in its place; and counts the records it deleted
DedupeKeepsEarliest ==
    last.op = "dedupe" =>
        /\ \A i \in DOMAIN last.before :
               /\ Cardinality(KeptOf(GroupOf(last.before[i]))) = 1
               /\ HasKey(store, last.before[i].request_key) =>
                      /\ KeptInPlace(last.before[i])
                      /\ \A j \in GroupOf(last.before[i]) :
                             last.before[i].first_seen <= last.before[j].first_seen
        /\ last.count = Len(last.before) - Len(store)
        /\ last.count = Cardinality(GoneRows)

\* dedupe leaves a record whose signature no other record has as it was
UniqueUntouched ==
    last.op = "dedupe" =>
        \A i \in DOMAIN last.before :
            GroupOf(last.before[i]) = {i} => StoredUnchanged(last.before[i])

\* dedupe leaves a record whose signature no other record has as it was but
\* for the location_key it fills
UniqueOnlyBackfilled ==
    last.op = "dedupe" =>
        \A i \in DOMAIN last.before :
            GroupOf(last.before[i]) = {i} => StoredUnchanged(BackfilledRow(last.before[i]))

\* C32: for every signature dedupe keeps the record first seen earliest, with
\* its key, place and selection, and deletes every other record of the
\* signature; a record of a signature no other record has is left as it was;
\* the count returned is the number of records deleted
C32_DedupeKeepsEarliestPerSignature == DedupeKeepsEarliest /\ UniqueUntouched

\* ---- C33

\* the rows of a group that have a value in the field
GivenIn(group, field) == {j \in group : Truthy(last.before[j][field])}

\* the row has the value of the group member first seen earliest among those
\* that have one, or none when no member has one
FirstWriterOf(row, group, field) ==
    IF GivenIn(group, field) = {} THEN ~Truthy(row[field])
    ELSE \E j \in GivenIn(group, field) :
             /\ \A m \in GivenIn(group, field) :
                    last.before[j].first_seen <= last.before[m].first_seen
             /\ row[field] = last.before[j][field]

\* the row spans the group: first seen with its earliest member, last seen
\* with its latest
SpansGroup(row, group) ==
    /\ \E j \in group : row.first_seen = last.before[j].first_seen
    /\ \A j \in group : row.first_seen <= last.before[j].first_seen
    /\ \E j \in group : row.last_seen = last.before[j].last_seen
    /\ \A j \in group : row.last_seen >= last.before[j].last_seen

\* the rows kept by the last dedupe pass whose signature another row had
Survivors ==
    {i \in DOMAIN last.before :
        /\ HasKey(store, last.before[i].request_key)
        /\ Cardinality(GroupOf(last.before[i])) >= 2}

\* C33: after dedupe the record kept of a signature that two or more records
\* had is first seen with the earliest and last seen with the latest of them,
\* and has for name, requester and request time the value of the record first
\* seen earliest among those that have one
C33_SurvivorMergesWholeGroup ==
    last.op = "dedupe" =>
        \A i \in Survivors :
            /\ SpansGroup(RowByKey(store, last.before[i].request_key),
                          GroupOf(last.before[i]))
            /\ FirstWriterOf(RowByKey(store, last.before[i].request_key),
                             GroupOf(last.before[i]), "name")
            /\ FirstWriterOf(RowByKey(store, last.before[i].request_key),
                             GroupOf(last.before[i]), "requested_by")
            /\ FirstWriterOf(RowByKey(store, last.before[i].request_key),
                             GroupOf(last.before[i]), "requested_at")

\* the same for the signatures exactly two records had
SurvivorMergesPair ==
    last.op = "dedupe" =>
        \A i \in Survivors :
            Cardinality(GroupOf(last.before[i])) = 2 =>
                /\ SpansGroup(RowByKey(store, last.before[i].request_key),
                              GroupOf(last.before[i]))
                /\ FirstWriterOf(RowByKey(store, last.before[i].request_key),
                                 GroupOf(last.before[i]), "name")
                /\ FirstWriterOf(RowByKey(store, last.before[i].request_key),
                                 GroupOf(last.before[i]), "requested_by")
                /\ FirstWriterOf(RowByKey(store, last.before[i].request_key),
                                 GroupOf(last.before[i]), "requested_at")

\* ---- C34

\* the last call was an upsert that matched no signature and found its
\* candidate key stored
KeyMatched == last.op = "upsert" /\ last.path = "key"

\* the row stored under the candidate key before the call
KeyRowBefore == RowByKey(last.before, CandidateKey(last.request))

\* the row stored under the candidate key after the call
KeyRowAfter == RowByKey(store, CandidateKey(last.request))

\* the upsert left identity, place, selection and first_seen of the row and
\* inserted nothing
KeyRowKept ==
    /\ Len(store) = Len(last.before)
    /\ HasKey(last.before, CandidateKey(last.request))
    /\ HasKey(store, CandidateKey(last.request))
    /\ KeyRowAfter.first_seen = KeyRowBefore.first_seen
    /\ KeyRowAfter.location_slug = KeyRowBefore.location_slug
    /\ KeyRowAfter.lat = KeyRowBefore.lat
    /\ KeyRowAfter.lon = KeyRowBefore.lon
    /\ KeyRowAfter.elevation_m = KeyRowBefore.elevation_m
    /\ KeyRowAfter.bundle_slug = KeyRowBefore.bundle_slug
    /\ KeyRowAfter.selected_norad_ids = KeyRowBefore.selected_norad_ids
    /\ KeyRowAfter.location_key = BackfilledRow(KeyRowBefore).location_key
    /\ KeyRowAfter.last_seen = last.now
    /\ KeyRowAfter.last_seen >= KeyRowBefore.last_seen
    /\ \A i \in DOMAIN last.before :
           last.before[i].request_key # CandidateKey(last.request) =>
               StoredUnchanged(BackfilledRow(last.before[i]))

\* the field of the row is what it was when that was not empty, else what the
\* request gives
FilledWhenEmpty(field) ==
    IF Truthy(KeyRowBefore[field]) THEN KeyRowAfter[field] = KeyRowBefore[field]
    ELSE IF Truthy(last.request[field]) THEN KeyRowAfter[field] = last.request[field]
    ELSE ~Truthy(KeyRowAfter[field])

\* the field of the row is what it was when that was not NULL, else what the
\* request gives
FilledWhenNull(field) ==
    KeyRowAfter[field] = Coalesce(KeyRowBefore[field], last.request[field])

\* C34: an upsert that matches no signature and whose candidate key is stored
\* inserts no row and leaves the stored record its first_seen, key, slug,
\* coordinates, location_key and selection; last_seen becomes the time of the
\* call and each of name, requester and request time that was empty is filled
\* from the request
C34_KeyMatchKeepsRecord ==
    KeyMatched =>
        /\ KeyRowKept
        /\ FilledWhenEmpty("name")
        /\ FilledWhenEmpty("requested_by")
        /\ FilledWhenEmpty("requested_at")

\* the same, the fields filled being those that were NULL
KeyMatchFillsNull ==
    KeyMatched =>
        /\ KeyRowKept
        /\ FilledWhenNull("name")
        /\ FilledWhenNull("requested_by")
        /\ FilledWhenNull("requested_at")

\* an upsert found its candidate key stored with an empty requester text and
\* gave a requester
KeyMatchedOnEmptyText ==
    /\ KeyMatched
    /\ KeyRowBefore.requested_by = ""
    /\ Truthy(last.request.requested_by)

\* an upsert found its candidate key stored without a requester and filled it
KeyMatchedFilled ==
    /\ KeyMatched
    /\ KeyRowBefore.requested_by = None
    /\ KeyRowAfter.requested_by = "bob"
    /\ KeyRowAfter.lat # last.request.lat

\* ---- C35

\* the key of the row is the key of its slug, bundle and stored selection
KeyOfStored(row) ==
    row.request_key = request_key_for(row.location_slug, row.bundle_slug,
                                      row.selected_norad_ids)

\* C35: in every state reached from the empty table by upsert, canonicalize
\* and dedupe calls, the request_key of every record is the key computed from
\* its location_slug, its bundle_slug and its stored selection
C35_KeyMatchesStoredSelection == \A i \in DOMAIN store : KeyOfStored(store[i])

\* a canonicalize pass after an upsert renamed a record to the key of another
\* selection, and the table holds a record without a selection too
C35_Witness ==
    /\ last.op = "canonicalize" /\ ~last.failed
    /\ \E k \in DOMAIN last.steps :
         /\ last.steps[k].branch = "rename"
         /\ last.steps[k].record.selected_norad_ids # <<>>
         /\ SelectedAt(k) # <<>>
         /\ HasKey(store, RewrittenKey(last.steps[k].record))
    /\ \E i \in DOMAIN store : store[i].selected_norad_ids = <<>>
    /\ prior.op = "upsert"

\* ---- C36

\* the record returned by the last upsert is the row stored under the key it
\* returned, read as a record
ReturnedIsStored ==
    /\ HasKey(store, last.ret.request_key)
    /\ get_request_by_key(store, last.ret.request_key) = last.ret

\* C36: the record an upsert returns is the row stored under the returned
\* request_key when the call ends, in every field, whether the upsert matched
\* a signature, matched its candidate key or inserted
C36_ReturnedEqualsStored == last.op = "upsert" => ReturnedIsStored

\* the record an inserting upsert returns is the row it stored
InsertReturnsStored == (last.op = "upsert" /\ last.path = "insert") => ReturnedIsStored

\* the record returned on a signature match is the row stored
SignatureReturnsStored ==
    (last.op = "upsert" /\ last.path = "signature") => ReturnedIsStored

\* the record returned on a match of the candidate key is the row stored
KeyReturnsStored == (last.op = "upsert" /\ last.path = "key") => ReturnedIsStored

\* the record returned on a match has the key, slug, bundle, first_seen and
\* last_seen of the row stored
MatchReturnsIdentity ==
    (last.op = "upsert" /\ last.path \in {"signature", "key"}) =>
        /\ HasKey(store, last.ret.request_key)
        /\ RowByKey(store, last.ret.request_key).location_slug = last.ret.location_slug
        /\ RowByKey(store, last.ret.request_key).bundle_slug = last.ret.bundle_slug
        /\ RowByKey(store, last.ret.request_key).first_seen = last.ret.first_seen
        /\ RowByKey(store, last.ret.request_key).last_seen = last.ret.last_seen

\* ---- C37

\* C37: upserts alone into a new table, at one precision, never leave two
\* records with the same location_key, bundle and normalized selection, and
\* an upsert inserts a row only when no stored record had its signature
C37_UpsertsKeepSignaturesApart ==
    /\ NoSharedSignature(store)
    /\ (last.op = "upsert" /\ last.path = "insert") =>
           /\ Len(store) = Len(last.before) + 1
           /\ \A i \in DOMAIN last.before :
                  NormalizedSignature(last.before[i]) # RequestSignature(last.request)
    /\ (last.op = "upsert" /\ last.path # "insert") => Len(store) = Len(last.before)

\* three upserts left two records: the last matched by signature a record
\* stored under another slug, the one before inserted
C37_Witness ==
    /\ ops = 3 /\ Len(store) = 2
    /\ last.op = "upsert" /\ last.path = "signature"
    /\ last.ret.request_key # CandidateKey(last.request)
    /\ prior.op = "upsert" /\ prior.path = "insert"

\* ---- C38

\* the last pass returned 0 and left the table as it was
Fixpoint ==
    /\ last.op = "canonicalize" /\ ~last.failed
    /\ last.count = 0
    /\ store = last.before

\* C38: when canonicalize passes are repeated with one availability map and
\* cap and no upsert in between, some pass returns 0 and changes nothing
C38_PassesReachFixpoint == [](last.op = "canonicalize" => <>Fixpoint)

\* once a pass has returned 0 every later pass does
FixpointStays == [][(Fixpoint /\ last'.op = "canonicalize") => Fixpoint']_vars

\* a pass returned 0 after a pass that rewrote a record
C38_Witness ==
    /\ Fixpoint
    /\ prior.op = "canonicalize" /\ prior.count > 0
    /\ store # <<>>

\* the third pass still rewrote a record
ThirdPassRewrote ==
    /\ ops = 3
    /\ last.op = "canonicalize" /\ last.count > 0

\* ---- C39

\* the stored record keeps or lowers the first_seen and keeps or raises the
\* last_seen it was read with
SpanKept(was, key) ==
    /\ HasKey(store, key)
    /\ RowByKey(store, key).first_seen <= was.first_seen
    /\ RowByKey(store, key).last_seen >= was.last_seen

\* an upsert deletes and renames nothing: every record survives under its key
UpsertKeepsSpans ==
    last.op = "upsert" =>
        \A i \in DOMAIN last.before : SpanKept(last.before[i], last.before[i].request_key)

\* a dedupe pass renames nothing: the survivors are the keys still stored
DedupeKeepsSpans ==
    last.op = "dedupe" =>
        \A i \in DOMAIN last.before :
            HasKey(store, last.before[i].request_key) =>
                SpanKept(last.before[i], last.before[i].request_key)

\* the steps of the last canonicalize pass whose record it did not merge away
SurvivingSteps == DOMAIN last.steps \ MergedSteps

\* the key a surviving record of the pass ends under
EndKey(k) ==
    IF last.steps[k].branch = "rename"
    THEN RewrittenKey(last.steps[k].record)
    ELSE last.steps[k].record.request_key

\* a canonicalize pass: every record not merged away, under the key it ends with
CanonicalizeKeepsSpans ==
    (last.op = "canonicalize" /\ ~last.failed) =>
        \A k \in SurvivingSteps : SpanKept(last.steps[k].record, EndKey(k))

\* C39: no upsert, canonicalize or dedupe call increases the first_seen or
\* decreases the last_seen of a record that survives the call, the holder of
\* several merges of one pass included
C39_SpansNeverShrink == UpsertKeepsSpans /\ DedupeKeepsSpans /\ CanonicalizeKeepsSpans

\* a canonicalize pass left a holder with a later first_seen than it had
HolderFirstSeenRaised ==
    /\ last.op = "canonicalize" /\ ~last.failed
    /\ \E k \in SurvivingSteps :
         /\ HasKey(store, EndKey(k))
         /\ EndKey(k) \in HolderKeys
         /\ RowByKey(store, EndKey(k)).first_seen > last.steps[k].record.first_seen

\* a dedupe pass left a survivor with an earlier last_seen than it had
SurvivorLastSeenLowered ==
    /\ last.op = "dedupe"
    /\ \E i \in DOMAIN last.before :
         /\ HasKey(store, last.before[i].request_key)
         /\ RowByKey(store, last.before[i].request_key).last_seen < last.before[i].last_seen

\* ---- C40

\* the last call was seed_requests with reset and a database that opened
SeedWithReset == last.op = "seed" /\ last.reset /\ last.opening = Returns

\* the seed file is missing, is no list or has an entry that fails validation
SeedUnloadable ==
    \/ ~last.seed.found
    \/ ~last.seed.list
    \/ \E i \in DOMAIN last.seed.entries : ~last.seed.entries[i].valid

\* the entries of the loaded file that raise in the loop
RaisingEntries ==
    {i \in DOMAIN last.seed.entries :
        SeedRaises(last.seed.entries[i].request, KnownBundles, PlanetaryBundles)}

\* the first entry that raises, else one past the last entry
FirstRaising ==
    IF RaisingEntries = {} THEN Len(last.seed.entries) + 1
    ELSE CHOOSE i \in RaisingEntries : \A j \in RaisingEntries : i <= j

\* the requests upserted for the entries before the first that raises
UpsertedBefore ==
    [i \in 1..(FirstRaising - 1) |->
        SeededRequest(last.seed.entries[i].request,
                      AvailableFor(SeedConfig(last.cap).norad_ids,
                                   last.seed.entries[i].request.bundle_slug),
                      last.cap, PlanetaryBundles, Precision)]

\* a missing or invalid seed file raises and leaves every stored record
UnloadableLeavesStore ==
    (SeedWithReset /\ SeedUnloadable) =>
        /\ last.failed
        /\ store = last.before
        /\ last.connection = NoConnection

\* a failure after the load leaves a new table with the upserts of the entries
\* before the failing one, and the connection closed
RaisingEntryLeavesReset ==
    (SeedWithReset /\ ~SeedUnloadable /\ RaisingEntries # {}) =>
        /\ last.failed
        /\ store = MigrateLoop(<<>>, UpsertedBefore, Precision, last.now, <<>>).rows
        /\ last.count = Len(UpsertedBefore)
        /\ last.connection = Closed

\* C40: seed_requests with reset and a seed file that is missing or fails
\* validation raises before the store is deleted and leaves every record; a
\* failure after the load (unknown bundle, planetary bundle with a selection)
\* leaves the store reset and holding the upserts of the entries before the
\* failing one, with the connection closed
C40_SeedResetFailures == UnloadableLeavesStore /\ RaisingEntryLeavesReset

\* an invalid third entry left a table of three records as it was, and a
\* planetary entry with ids left a reset table with the two records before it
C40_Witness ==
    /\ SeedWithReset /\ last.failed
    /\ last.seed.entries = <<GoodHome, GoodSun, SunWithIds>>
    /\ Len(store) = 2 /\ Len(last.before) = 3
    /\ last.connection = Closed
    /\ prior.op = "seed" /\ prior.reset /\ prior.path = "load"
    /\ Len(prior.seed.entries) = 3
    /\ prior.before = last.before

\* a reset with a missing seed file on a table that holds records
MissingSeedOnStored ==
    /\ SeedWithReset /\ ~last.seed.found
    /\ last.before # <<>> /\ store = last.before

====
